---- MODULE Spec2Model ----
(***************************************************************************)
(* Model of the ExpenseAI backend: the Razorpay payment endpoints (Express *)
(* server and Deno edge function) over the payments table, and the         *)
(* category-type / expense-category / income-category handlers over their  *)
(* tables.  Every handler is one action; the store is the Postgres schema  *)
(* with its UNIQUE, NOT NULL and FOREIGN KEY constraints.                  *)
(***************************************************************************)
EXTENDS Integers, Sequences, FiniteSets, TLC

\* ---------------------------------------------------------------- bounds
\* orders the payment processor ever mints
MaxOrders == 2
PaymentIds == {"pay_1", "pay_2"}

NULL == "null"
\* an absent / falsy order id
NoOrder == 0
\* an absent / falsy signature
NoSignature == <<>>
\* a response without a message (messages are sequences of words)
NoMessage == <<>>

VARIABLES
  payments,      \* rows of table payments
  nextOrder,     \* next order id the payment processor mints
  env,           \* process environment: which optional secrets/clients are configured
  response,      \* the response of the handler that ran last
  req            \* what the last request was (endpoint, key inputs, outcome of its checks)

payVars == <<payments, nextOrder, env, response, req>>

\* ------------------------------------------------------------- HMAC, rows
\* crypto.createHmac('sha256', secret).update(msg).digest('hex'): an ideal MAC,
\* a different digest for every different (secret, msg).
Hmac(secret, msg) == <<"hmac-sha256", secret, msg>>

KEY_SECRET == "RAZORPAY_KEY_SECRET"
WEBHOOK_SECRET == "RAZORPAY_WEBHOOK_SECRET"
ATTACKER_SECRET == "not-the-secret"

\* `${razorpay_order_id}|${razorpay_payment_id}`
VerifyMessage(order_id, payment_id) == <<order_id, "|", payment_id>>

ExpectedSignature(order_id, payment_id) ==
  Hmac(KEY_SECRET, VerifyMessage(order_id, payment_id))

\* a comparison that accepts every signature
SignatureValid_AcceptAll(expected, signature) == TRUE

\* a comparison that looks at the key and the order id only
SignatureValid_IgnorePayment(expected, signature) ==
  Len(signature) = 3 /\ signature[2] = expected[2] /\ signature[3][1] = expected[3][1]

\* const valid = expected === razorpay_signature
SignatureValid(expected, signature) == expected = signature

OrderIds == 1..MaxOrders

PaymentStatuses == {"created", "authorized", "captured", "failed", "refunded"}

\* an insert that starts the row in another status
NewPaymentRow_Authorized(userId, orderId) ==
  [razorpay_order_id |-> orderId, user_id |-> userId, status |-> "authorized",
   razorpay_payment_id |-> NULL, verified_at |-> NULL]

\* a payments row, with the columns the handlers filter on or set apart from
\* the stored copy of the signature
NewPaymentRow(userId, orderId) ==
  [razorpay_order_id |-> orderId, user_id |-> userId, status |-> "created",
   razorpay_payment_id |-> NULL, verified_at |-> NULL]

HasRow(rows, orderId) == \E r \in rows : r.razorpay_order_id = orderId

RowOf(rows, orderId) == CHOOSE r \in rows : r.razorpay_order_id = orderId

\* .update({status:'failed', razorpay_payment_id, razorpay_signature}).eq('razorpay_order_id', id)
MarkFailed(rows, orderId, payment_id, signature) ==
  { IF r.razorpay_order_id = orderId
      THEN [r EXCEPT !.status = "failed", !.razorpay_payment_id = payment_id]
      ELSE r : r \in rows }

\* .update({status:'captured', razorpay_payment_id, razorpay_signature, verified_at}).eq(...)
MarkCaptured(rows, orderId, payment_id, signature) ==
  { IF r.razorpay_order_id = orderId
      THEN [r EXCEPT !.status = "captured", !.razorpay_payment_id = payment_id,
                     !.verified_at = "now"]
      ELSE r : r \in rows }

\* a webhook that inserts a captured row next to the rows it updates
WebhookCapture_Insert(rows, orderId, payment_id) ==
  { [r EXCEPT !.status = "captured", !.razorpay_payment_id = payment_id,
              !.verified_at = "now"] : r \in { x \in rows : x.razorpay_order_id = orderId } }
    \cup rows

\* webhook: .update({status:'captured', razorpay_payment_id, method, email, contact, verified_at})
WebhookCapture(rows, orderId, payment_id) ==
  { IF r.razorpay_order_id = orderId
      THEN [r EXCEPT !.status = "captured", !.razorpay_payment_id = payment_id,
                     !.verified_at = "now"]
      ELSE r : r \in rows }

\* res.status(status).json({success, message, ...})
Reply(status, success, message) ==
  [status |-> status, json |-> TRUE, success |-> success, message |-> message]

\* res.sendStatus(status): no JSON envelope
SendStatus(status) ==
  [status |-> status, json |-> FALSE, success |-> FALSE, message |-> NoMessage]

\* ------------------------------------------------------ JWT middleware
AuthHeaders == {"absent", "no-token", "bad-token", "good-token"}

\* jwtAuthMiddleware: next() is called only for a token that verifies
JwtAccepts(auth) == auth = "good-token"

\* jwtAuthMiddleware: the 401 reply of a request it stops
JwtReject(auth) ==
  CASE auth = "absent"    -> Reply(401, FALSE, <<"Authorization", "header", "missing">>)
    [] auth = "no-token"  -> Reply(401, FALSE, <<"Token", "missing">>)
    [] OTHER              -> Reply(401, FALSE, <<"Invalid", "or", "expired", "token">>)

\* ------------------------------------------------- request inputs
Users == {"u1"}          \* rows of auth.users
GhostUser == "u-ghost"   \* a userId with no auth.users row

\* payments.user_id references auth.users(id): the insert is refused otherwise
InsertPayment(rows, row) ==
  IF row.user_id \in Users THEN rows \cup {row} ELSE rows

\* the signatures a caller can put in razorpay_signature for (order, payment):
\* the genuine one, one genuine for the other payment id, one made with
\* another key, or none
SignaturesFor(o, p) ==
  { Hmac(KEY_SECRET, VerifyMessage(o, p)) }
    \cup { Hmac(KEY_SECRET, VerifyMessage(o, q)) : q \in PaymentIds }
    \cup { Hmac(ATTACKER_SECRET, VerifyMessage(o, p)), NoSignature }

\* the request that was just handled (for a category request, creq: op, the
\* trimmed name, the id it names or the id of the row it returns, the parent id).
\* For a request that reached the store, order is its order id, genuine says
\* whether the signature it carried is the HMAC of its content under the
\* shared secret, and hadRow whether a payments row for its order id existed
\* when it arrived; a request answered before the store keeps only its op.
PayReq(op, endpoint, order, genuine, hadRow) ==
  [op |-> op, endpoint |-> endpoint, order |-> order, genuine |-> genuine, hadRow |-> hadRow]

Genuine(order_id, payment_id, signature) ==
  signature = Hmac(KEY_SECRET, VerifyMessage(order_id, payment_id))

\* ------------------------------------------------------ Express routing
\* the handlers registered on each of /api/payments/create-order and
\* /api/payments/verify, in registration order; jwt says whether
\* jwtAuthMiddleware is in front of the handler
Registered == <<[jwt |-> TRUE], [jwt |-> FALSE]>>

\* a router that runs the handler registered last
Dispatched_Last == Registered[Len(Registered)]

\* Express runs the first handler registered on the path; a later one runs only
\* if the earlier calls next(), and neither the middleware's 401 nor the
\* handler does
Dispatched == Head(Registered)

\* whether the request gets past the middleware in front of the handler, if any
Admitted(auth) == Dispatched.jwt => JwtAccepts(auth)

\* ------------------------------------------- Express: create-order
\* app.post('/api/payments/create-order', jwtAuthMiddleware, ...)
CreateOrder(auth, amount, userId, processorOk) ==
  /\ req' = PayReq("create-order", "express", nextOrder, FALSE, FALSE)
  /\ UNCHANGED env
  /\ IF ~Admitted(auth)
       THEN /\ response' = JwtReject(auth)
            /\ UNCHANGED <<payments, nextOrder>>
     ELSE IF amount = 0 \/ userId = NULL
       THEN /\ response' = Reply(400, FALSE, <<"amount", "and", "userId", "are", "required">>)
            /\ UNCHANGED <<payments, nextOrder>>
     ELSE IF ~processorOk
       THEN /\ response' = Reply(500, FALSE, <<"Failed", "to", "create", "order">>)
            /\ UNCHANGED <<payments, nextOrder>>
     ELSE /\ nextOrder <= MaxOrders
          /\ payments' = InsertPayment(payments, NewPaymentRow(userId, nextOrder))
          /\ nextOrder' = nextOrder + 1
          /\ response' = Reply(200, TRUE, NoMessage)

\* ------------------------------------------------- Express: verify
\* app.post('/api/payments/verify', jwtAuthMiddleware, ...)
VerifyPayment(auth, order_id, payment_id, signature) ==
  LET valid == SignatureValid(ExpectedSignature(order_id, payment_id), signature) IN
  /\ UNCHANGED <<nextOrder, env>>
  /\ IF ~Admitted(auth)
       THEN /\ response' = JwtReject(auth)
            /\ req' = PayReq("verify-unauthorized", "express", NoOrder, FALSE, FALSE)
            /\ UNCHANGED payments
     ELSE IF order_id = NoOrder \/ payment_id = NULL \/ signature = NoSignature
       THEN /\ response' = Reply(400, FALSE, <<"Missing", "required", "fields">>)
            /\ req' = PayReq("verify-missing", "express", NoOrder, FALSE, FALSE)
            /\ UNCHANGED payments
     ELSE IF ~valid
       THEN /\ payments' = MarkFailed(payments, order_id, payment_id, signature)
            /\ response' = Reply(400, FALSE, <<"Invalid", "signature">>)
            /\ req' = PayReq("verify", "express", order_id,
                             Genuine(order_id, payment_id, signature), HasRow(payments, order_id))
     ELSE /\ payments' = MarkCaptured(payments, order_id, payment_id, signature)
          /\ response' = Reply(200, TRUE, NoMessage)
          /\ req' = PayReq("verify", "express", order_id,
                           Genuine(order_id, payment_id, signature), HasRow(payments, order_id))

\* --------------------------------------------------- Express: webhook
WebhookEvents == {"payment.captured", "payment.failed"}

\* payload.payment.entity, when the payload has one
WebhookPaymentEntities ==
  [present : {TRUE}, order_id : OrderIds \cup {NoOrder}, id : PaymentIds]
    \cup {[present |-> FALSE, order_id |-> NoOrder, id |-> NULL]}

\* req.body of a webhook delivery; order is payload.order.entity.id
WebhookBodies ==
  { b \in [event : WebhookEvents, payment : WebhookPaymentEntities,
            order : OrderIds \cup {NoOrder}] :
      \* payload.order is read only when payload.payment gives no order id
      /\ b.order # NoOrder => b.payment.order_id = NoOrder
      \* the payload of an event other than payment.captured is not read
      /\ b.event # "payment.captured" => b.order = NoOrder /\ ~b.payment.present }

\* an order id lookup that falls back to the first order when the payload has none
WebhookOrderId_Fallback(body) ==
  IF body.payment.present /\ body.payment.order_id # NoOrder
    THEN body.payment.order_id
    ELSE IF body.order # NoOrder THEN body.order ELSE 1

\* payload?.payment?.entity?.order_id || payload?.order?.entity?.id
WebhookOrderId(body) ==
  IF body.payment.present /\ body.payment.order_id # NoOrder
    THEN body.payment.order_id
    ELSE body.order

WebhookSignatures(body) ==
  { Hmac(WEBHOOK_SECRET, body), Hmac(ATTACKER_SECRET, body), NoSignature }

\* app.post('/api/payments/webhook', ...)
Webhook(signature, body) ==
  LET orderId == WebhookOrderId(body)
      expected == Hmac(WEBHOOK_SECRET, body) IN
  /\ UNCHANGED <<nextOrder, env>>
  /\ IF ~env.webhookSecret
       THEN /\ response' = SendStatus(200)
            /\ req' = PayReq("webhook-ignored", "express", NoOrder, FALSE, FALSE)
            /\ UNCHANGED payments
     ELSE IF signature # expected
       THEN /\ response' = SendStatus(400)
            /\ req' = PayReq("webhook-rejected", "express", NoOrder, FALSE, FALSE)
            /\ UNCHANGED payments
     ELSE IF body.event = "payment.captured" /\ orderId # NoOrder
       THEN IF ~body.payment.present
              \* payload.payment.entity.id on an absent payment: TypeError, caught
              THEN /\ response' = SendStatus(500)
                   /\ req' = PayReq("webhook-error", "express", NoOrder, FALSE, FALSE)
                   /\ UNCHANGED payments
              ELSE /\ payments' = WebhookCapture(payments, orderId, body.payment.id)
                   /\ response' = SendStatus(200)
                   /\ req' = PayReq("webhook", "express", orderId, signature = expected, HasRow(payments, orderId))
     ELSE /\ response' = SendStatus(200)
          /\ req' = PayReq("webhook-other", "express", NoOrder, FALSE, FALSE)
          /\ UNCHANGED payments

\* ------------------------------------------- edge function: serve
EdgePaths == {"/payments", "/payments/create-order", "/payments/verify", "/payments/health"}

EndsWith(pathname, suffix) ==
  CASE suffix = "/payments"     -> pathname = "/payments"
    [] suffix = "/create-order" -> pathname = "/payments/create-order"
    [] suffix = "/verify"       -> pathname = "/payments/verify"
    [] suffix = "/health"       -> pathname = "/payments/health"

\* the JSON body of a POST to the edge function
EdgeBodies ==
  { b \in [amount : {0, 100}, userId : Users \cup {NULL, GhostUser}, action : {NULL, "verify"},
            razorpay_order_id : OrderIds \cup {NoOrder},
            razorpay_payment_id : PaymentIds \cup {NULL},
            kind : {"genuine", "other-payment", "forged", "none"}] :
      \* a create-order body, a verify body, or an invoke body carrying both
      \/ b.action = NULL /\ b.razorpay_order_id = NoOrder
           /\ b.razorpay_payment_id = NULL /\ b.kind = "none"
      \/ b.amount = 0 /\ b.userId = NULL
      \/ b.action = "verify" /\ b.amount # 0 /\ b.userId # NULL /\ b.kind = "genuine" }

\* the razorpay_signature field of an edge-function body
EdgeSignature(body) ==
  CASE body.kind = "genuine" ->
         Hmac(KEY_SECRET, VerifyMessage(body.razorpay_order_id, body.razorpay_payment_id))
    [] body.kind = "other-payment" ->
         Hmac(KEY_SECRET, VerifyMessage(body.razorpay_order_id,
              CHOOSE q \in PaymentIds : q # body.razorpay_payment_id))
    [] body.kind = "forged" ->
         Hmac(ATTACKER_SECRET, VerifyMessage(body.razorpay_order_id, body.razorpay_payment_id))
    [] OTHER -> NoSignature

\* create-order branch of serve
EdgeCreateOrder(body, processorOk) ==
  /\ req' = PayReq("create-order", "edge", nextOrder, FALSE, FALSE)
  /\ IF body.amount = 0 \/ body.userId = NULL
       THEN /\ response' = Reply(400, FALSE, <<"amount", "and", "userId", "are", "required">>)
            /\ UNCHANGED <<payments, nextOrder>>
     ELSE IF ~processorOk
       \* razorpayRequest throws; the outer catch answers 500 with err.message
       THEN /\ response' = Reply(500, FALSE, <<"Razorpay", "request", "failed">>)
            /\ UNCHANGED <<payments, nextOrder>>
     ELSE /\ nextOrder <= MaxOrders
          /\ payments' = IF env.supabaseAdmin
                           THEN InsertPayment(payments, NewPaymentRow(body.userId, nextOrder))
                           ELSE payments
          /\ nextOrder' = nextOrder + 1
          /\ response' = Reply(200, TRUE, NoMessage)

\* what the call sendPaymentConfirmationEmail(supabaseAdmin, updated) can do: give
\* a promise that resolves, give one that rejects (logged by its .catch), or
\* throw before any promise exists; index.ts neither declares nor imports the
\* name, so evaluating the call raises a ReferenceError
EmailOutcomes == {"resolved", "rejected", "threw"}

\* if (updated && updated.user_id): .select().single() gave the updated row
Notified(rows, orderId) ==
  /\ env.supabaseAdmin
  /\ HasRow(rows, orderId)
  /\ RowOf(rows, orderId).user_id # NULL

\* verify branch of serve
EdgeVerify(body, email) ==
  LET order_id == body.razorpay_order_id
      payment_id == body.razorpay_payment_id
      signature == EdgeSignature(body)
      valid == SignatureValid(ExpectedSignature(order_id, payment_id), signature)
      r(op) == PayReq(op, "edge", order_id, Genuine(order_id, payment_id, signature),
                      HasRow(payments, order_id)) IN
  /\ UNCHANGED nextOrder
  /\ IF order_id = NoOrder \/ payment_id = NULL \/ signature = NoSignature
       THEN /\ response' = Reply(400, FALSE, <<"Missing", "required", "fields">>)
            /\ req' = PayReq("verify-missing", "edge", NoOrder, FALSE, FALSE)
            /\ UNCHANGED payments
     ELSE IF ~valid
       THEN IF env.supabaseAdmin
              THEN /\ payments' = MarkFailed(payments, order_id, payment_id, signature)
                   /\ response' = Reply(400, FALSE, <<"Invalid", "signature">>)
                   /\ req' = r("verify")
              \* supabaseAdmin.from on null: TypeError, the outer catch answers 500
              ELSE /\ response' = Reply(500, FALSE, <<"Cannot", "read", "properties", "of", "null">>)
                   /\ req' = PayReq("verify-error", "edge", NoOrder, FALSE, FALSE)
                   /\ UNCHANGED payments
     ELSE /\ payments' = IF env.supabaseAdmin
                           THEN MarkCaptured(payments, order_id, payment_id, signature)
                           ELSE payments
          \* a throw of the email call lands in the outer catch after the update
          /\ response' = IF Notified(payments, order_id) /\ email = "threw"
                            THEN Reply(500, FALSE, <<"sendPaymentConfirmationEmail", "is", "not", "defined">>)
                            ELSE Reply(200, TRUE, NoMessage)
          /\ req' = r("verify")

\* serve(async (req) => ...) for a POST
Serve(pathname, body, processorOk, email) ==
  /\ UNCHANGED env
  /\ IF EndsWith(pathname, "/payments") \/ EndsWith(pathname, "/create-order")
       THEN EdgeCreateOrder(body, processorOk)
     ELSE IF /\ EndsWith(pathname, "/payments") \/ EndsWith(pathname, "/verify")
             /\ body.action = "verify" \/ EndsWith(pathname, "/verify")
       THEN EdgeVerify(body, email)
     ELSE IF EndsWith(pathname, "/health")
       THEN /\ response' = [status |-> 200, json |-> TRUE, success |-> FALSE, message |-> <<"OK">>]
            /\ req' = PayReq("health", "edge", NoOrder, FALSE, FALSE)
            /\ UNCHANGED <<payments, nextOrder>>
     ELSE /\ response' = [status |-> 404, json |-> TRUE, success |-> FALSE, message |-> <<"Not", "found">>]
          /\ req' = PayReq("not-found", "edge", NoOrder, FALSE, FALSE)
          /\ UNCHANGED <<payments, nextOrder>>

\* ======================================================= category store
\* category_types rows ever inserted
MaxTypes == 2
\* expense_categories rows ever inserted
MaxExpenseCategories == 2
\* income_categories rows ever inserted
MaxIncomeCategories == 2
\* income_subcategories rows ever inserted
MaxIncomeSubcategories == 2
\* expenses rows ever inserted
MaxExpenses == 1
\* length of an embedded subcategories list
MaxSubcategories == 1
\* length of an embedded subcategories list when its calls run concurrently
MaxListLen == 2
\* user_profiles rows ever inserted
MaxProfiles == 2

VARIABLES
  category_types,        \* rows [id, type_name]
  expense_categories,    \* rows [id, category, category_type_id, is_active, subcategories]
  income_categories,     \* rows [id, name, category_type_id]
  income_subcategories,  \* rows [id, category_id, name, is_recurring]
  expenses,              \* rows [id, category]
  nextId,                \* per table, the next primary key gen_random_uuid() gives
  schema,                \* which optional migrations have been applied
  creq,                  \* the category request handled last
  user_profiles,         \* rows [user_id, onboarding_completed, form, profile_picture_url]
  profileCache,          \* ProfileService._profileCache: per user id, <<row>> or <<>>
  task,                  \* per concurrent request, how far its handler has got
  openai,                \* OpenAIService: the call made last, its arguments and result
  checkout               \* paymentService.js in a page: razorpayScriptLoaded, <script>s, calls

catVars == <<category_types, expense_categories, income_categories,
             income_subcategories, expenses, nextId, schema, creq, user_profiles,
             profileCache, task, openai, checkout>>

vars == <<payments, nextOrder, env, response, req, category_types, expense_categories,
          income_categories, income_subcategories, expenses, nextId, schema, creq,
          user_profiles, profileCache, task, openai, checkout>>

\* requests in flight at the same time
Procs == {1, 2}

\* auth.users ids that save a profile
ProfileUsers == 1..MaxProfiles

\* a handler between two awaits: the await it is at and the locals it holds
Task(pc, op, name, id, parent, data) ==
  [pc |-> pc, op |-> op, name |-> name, id |-> id, parent |-> parent, data |-> data]

\* no request in flight
NoTask == Task("idle", "none", <<>>, 0, 0, <<>>)

\* no handler is between two awaits and no profile is stored
\* no call of the OpenAI service yet: data.category, availableCategories, result
NoAnalysis == [op |-> "none", category |-> <<>>, available |-> <<>>, result |-> <<>>]

\* a page that has just imported paymentService.js: let razorpayScriptLoaded =
\* false, no <script> appended, no loadRazorpayScript call settled
NoCheckout == [razorpayScriptLoaded |-> FALSE, scripts |-> <<>>, settled |-> <<>>]

Quiet ==
  /\ task = [p \in Procs |-> NoTask]
  /\ user_profiles = <<>>
  /\ profileCache = [u \in ProfileUsers |-> <<>>]
  /\ openai = NoAnalysis
  /\ checkout = NoCheckout

\* a null foreign key / an id with no row
NoId == 0

\* ------------------------------------------------------------- strings
\* a string is the sequence of its characters
Whitespace == {" "}

LetterChars ==
  {"a","b","c","d","e","f","g","h","i","j","k","l","m","n","o","p","q","r","s","t","u",
   "v","w","x","y","z","A","B","C","D","E","F","G","H","I","J","K","L","M","N","O","P",
   "Q","R","S","T","U","V","W","X","Y","Z"}

RECURSIVE TrimStart(_)
TrimStart(str) ==
  IF str # <<>> /\ Head(str) \in Whitespace THEN TrimStart(Tail(str)) ELSE str

RECURSIVE TrimEnd(_)
TrimEnd(str) ==
  IF str # <<>> /\ str[Len(str)] \in Whitespace
    THEN TrimEnd(SubSeq(str, 1, Len(str) - 1)) ELSE str

\* String.prototype.trim
Trim(str) == TrimEnd(TrimStart(str))

\* /^[a-zA-Z\s\-']+$/.test(str)
CharacterOnly(str) ==
  /\ str # <<>>
  /\ \A i \in 1..Len(str) : str[i] \in LetterChars \cup Whitespace \cup {"-", "'"}

Repeat(c, n) == [i \in 1..n |-> c]

\* a request-body field: its JavaScript type and, for a string, its characters
JsString(chars) == [type |-> "string", chars |-> chars]
JsNumber == [type |-> "number", chars |-> <<>>]
JsUndefined == [type |-> "undefined", chars |-> <<>>]

\* !field for a string or undefined field, and for the non-zero number JsNumber
Falsy(field) ==
  field.type = "undefined" \/ (field.type = "string" /\ field.chars = <<>>)

Fun == <<"F", "u", "n">>
fun == <<"f", "u", "n">>
Names == {Fun, fun}

MaxTypeNameLen == 50
MaxDescriptionLen == 200
\* --------------------------------------------------- validateCategoryType
MaxIncomeNameLen == 100
\* a validator without the character check
CategoryTypeError_NoRegex(type_name, description) ==
  IF Falsy(type_name) \/ type_name.type # "string" \/ Len(Trim(type_name.chars)) = 0
    THEN <<"Type", "name", "is", "required", "and", "must", "be", "a", "non-empty", "string">>
  ELSE IF Len(Trim(type_name.chars)) > MaxTypeNameLen
    THEN <<"Type", "name", "must", "be", "50", "characters", "or", "less">>
  ELSE IF ~Falsy(description) /\ description.type # "string"
    THEN <<"Description", "must", "be", "a", "string">>
  ELSE IF ~Falsy(description) /\ Len(description.chars) > MaxDescriptionLen
    THEN <<"Description", "must", "be", "200", "characters", "or", "less">>
  ELSE NoMessage

\* the 400 message of validateCategoryType, or NoMessage when it calls next()
CategoryTypeError(type_name, description) ==
  IF Falsy(type_name) \/ type_name.type # "string" \/ Len(Trim(type_name.chars)) = 0
    THEN <<"Type", "name", "is", "required", "and", "must", "be", "a", "non-empty", "string">>
  ELSE IF Len(Trim(type_name.chars)) > MaxTypeNameLen
    THEN <<"Type", "name", "must", "be", "50", "characters", "or", "less">>
  ELSE IF ~CharacterOnly(Trim(type_name.chars))
    THEN <<"Type", "name", "must", "contain", "only", "letters,", "spaces,", "hyphens,",
           "and", "apostrophes">>
  ELSE IF ~Falsy(description) /\ description.type # "string"
    THEN <<"Description", "must", "be", "a", "string">>
  ELSE IF ~Falsy(description) /\ Len(description.chars) > MaxDescriptionLen
    THEN <<"Description", "must", "be", "200", "characters", "or", "less">>
  ELSE NoMessage

TypeNameInputs ==
  { JsString(Fun), JsString(fun), JsString(<<" ">> \o Fun \o <<" ">>), JsString(<<>>),
    JsString(<<" ">>), JsString(<<"F", "4">>), JsString(Repeat("a", MaxTypeNameLen + 1)),
    JsNumber, JsUndefined }

DescriptionInputs ==
  { JsUndefined, JsString(<<"o", "k">>), JsNumber,
    JsString(Repeat("d", MaxDescriptionLen + 1)) }

\* request bodies <<type_name, description>>: every name without a description,
\* every description with one valid name
CategoryTypeBodies ==
  { <<n, JsUndefined>> : n \in TypeNameInputs }
    \cup { <<JsString(Fun), d>> : d \in DescriptionInputs }

\* ------------------------------------------------------ store queries
TypeByName(name) == { t \in category_types : t.type_name = name }
TypeById(id) == { t \in category_types : t.id = id }
ExpenseByName(name) == { c \in expense_categories : c.category = name }
ExpenseById(id) == { c \in expense_categories : c.id = id }
IncomeByName(name) == { c \in income_categories : c.name = name }
IncomeById(id) == { c \in income_categories : c.id = id }
SubById(id) == { x \in income_subcategories : x.id = id }
SubByKey(category_id, name) ==
  { x \in income_subcategories : x.category_id = category_id /\ x.name = name }

\* category_type_id: REFERENCES category_types(id), NOT NULL once that migration ran
TypeLinkAccepted(category_type_id) ==
  IF category_type_id = NoId THEN ~schema.typeLinkRequired
  ELSE TypeById(category_type_id) # {}

\* insert into expense_categories: UNIQUE(category) and the type link
ExpenseInsertAccepted(category, category_type_id) ==
  ExpenseByName(category) = {} /\ TypeLinkAccepted(category_type_id)

\* an income_categories table without UNIQUE on name
IncomeInsertAccepted_NoUnique(name, category_type_id) ==
  TypeLinkAccepted(category_type_id)

\* insert into income_categories: name UNIQUE and the type link
IncomeInsertAccepted(name, category_type_id) ==
  IncomeByName(name) = {} /\ TypeLinkAccepted(category_type_id)

\* a seeded row that drops its type link
NewExpenseCategory_Unlinked(id, category, category_type_id) ==
  [id |-> id, category |-> category, category_type_id |-> NoId,
   is_active |-> TRUE, subcategories |-> <<>>]

NewExpenseCategory(id, category, category_type_id) ==
  [id |-> id, category |-> category, category_type_id |-> category_type_id,
   is_active |-> TRUE, subcategories |-> <<>>]

NewIncomeCategory(id, name, category_type_id) ==
  [id |-> id, name |-> name, category_type_id |-> category_type_id]

CatReq(op, name, id, parent) == [op |-> op, name |-> name, id |-> id, parent |-> parent]

\* ------------------------------------------------ POST /category-types
SeedOutcomes == {"ok", "error", "throw"}

\* a pre-check that compares names without regard to case
TypeExists_IgnoreCase(name) ==
  \E t \in category_types : t.type_name \in {Fun, fun} /\ name \in {Fun, fun}

\* the pre-check: select id from category_types where type_name = name
TypeExists(name) == TypeByName(name) # {}

\* a handler that lets a seeding failure decide the reply
CreatedReply_Propagate(expenseOutcome, incomeOutcome) ==
  IF expenseOutcome = "throw" \/ incomeOutcome = "throw"
    THEN Reply(500, FALSE, <<"Internal", "server", "error">>)
    ELSE Reply(201, TRUE, <<"Category", "type", "created", "successfully">>)

\* try { seed } catch (seedErr) { console.warn(...) }  res.status(201).json(...)
CreatedReply(expenseOutcome, incomeOutcome) ==
  Reply(201, TRUE, <<"Category", "type", "created", "successfully">>)

\* whether the default expense category is inserted
SeedExpense(outcome, category, typeId) ==
  outcome = "ok" /\ ExpenseByName(category) = {}

\* whether the default income category is inserted: not reached when the
\* expense insert threw
SeedIncome(expenseOutcome, outcome, name, typeId) ==
  expenseOutcome # "throw" /\ outcome = "ok" /\ IncomeByName(name) = {}

\* router.post('/', validateCategoryType, ...)
CreateCategoryType(type_name, description, expenseOutcome, incomeOutcome) ==
  LET err == CategoryTypeError(type_name, description)
      name == Trim(type_name.chars)
      id == nextId.types IN
  /\ UNCHANGED <<income_subcategories, expenses, schema>>
  /\ IF err # NoMessage
       THEN /\ response' = Reply(400, FALSE, err)
            /\ creq' = CatReq("create-type-invalid", <<>>, NoId, NoId)
            /\ UNCHANGED <<category_types, expense_categories, income_categories, nextId>>
     ELSE IF TypeExists(name)
       THEN /\ response' = Reply(409, FALSE,
                 <<"Category", "type", "with", "this", "name", "already", "exists">>)
            /\ creq' = CatReq("create-type", name, NoId, NoId)
            /\ UNCHANGED <<category_types, expense_categories, income_categories, nextId>>
     ELSE IF TypeByName(name) # {}
       \* the insert is refused by UNIQUE(type_name)
       THEN /\ response' = Reply(500, FALSE, <<"Failed", "to", "create", "category", "type">>)
            /\ creq' = CatReq("create-type", name, NoId, NoId)
            /\ UNCHANGED <<category_types, expense_categories, income_categories, nextId>>
     ELSE /\ nextId.types <= MaxTypes
          /\ SeedExpense(expenseOutcome, name, id) => nextId.expense <= MaxExpenseCategories
          /\ SeedIncome(expenseOutcome, incomeOutcome, name, id) =>
               nextId.income <= MaxIncomeCategories
          /\ category_types' = category_types \cup {[id |-> id, type_name |-> name]}
          /\ expense_categories' =
               IF SeedExpense(expenseOutcome, name, id)
                 THEN expense_categories \cup {NewExpenseCategory(nextId.expense, name, id)}
                 ELSE expense_categories
          /\ income_categories' =
               IF SeedIncome(expenseOutcome, incomeOutcome, name, id)
                 THEN income_categories \cup {NewIncomeCategory(nextId.income, name, id)}
                 ELSE income_categories
          /\ nextId' = [nextId EXCEPT
               !.types = @ + 1,
               !.expense = IF SeedExpense(expenseOutcome, name, id) THEN @ + 1 ELSE @,
               !.income = IF SeedIncome(expenseOutcome, incomeOutcome, name, id)
                            THEN @ + 1 ELSE @]
          /\ response' = CreatedReply(expenseOutcome, incomeOutcome)
          /\ creq' = CatReq("create-type", name, id, NoId)

\* ---------------------------------------------- PUT /category-types/:id
\* a duplicate check that counts the row's own name
TypeNameTaken_AnyRow(id, name) == TypeByName(name) # {}

\* duplicateType: select id ... eq('type_name', type_name).neq('id', id)
TypeNameTaken(id, name) == \E t \in TypeByName(name) : t.id # id

\* router.put('/:id', validateCategoryType, ...)
UpdateCategoryType(id, type_name, description) ==
  LET err == CategoryTypeError(type_name, description)
      name == Trim(type_name.chars) IN
  /\ UNCHANGED <<expense_categories, income_categories, income_subcategories, expenses,
                 nextId, schema>>
  /\ IF err # NoMessage
       THEN /\ response' = Reply(400, FALSE, err)
            /\ creq' = CatReq("update-type-invalid", <<>>, id, NoId)
            /\ UNCHANGED category_types
     ELSE IF TypeById(id) = {}
       THEN /\ response' = Reply(404, FALSE, <<"Category", "type", "not", "found">>)
            /\ creq' = CatReq("update-type", name, id, NoId)
            /\ UNCHANGED category_types
     ELSE IF TypeNameTaken(id, name)
       THEN /\ response' = Reply(409, FALSE,
                 <<"Category", "type", "with", "this", "name", "already", "exists">>)
            /\ creq' = CatReq("update-type", name, id, NoId)
            /\ UNCHANGED category_types
     ELSE /\ category_types' =
               { IF t.id = id THEN [t EXCEPT !.type_name = name] ELSE t : t \in category_types }
          /\ response' = Reply(200, TRUE, <<"Category", "type", "updated", "successfully">>)
          /\ creq' = CatReq("update-type", name, id, NoId)

\* ------------------------------------------- DELETE /category-types/:id
\* a reference check that counts active expense categories only
UsedByExpense_ActiveOnly(id) ==
  \E c \in expense_categories : c.category_type_id = id /\ c.is_active

\* select id from expense_categories where category_type_id = id limit 1
UsedByExpense(id) == \E c \in expense_categories : c.category_type_id = id

\* a delete that skips the income_categories check
UsedByIncome_Never(id) == FALSE

\* select id from income_categories where category_type_id = id limit 1
UsedByIncome(id) == \E c \in income_categories : c.category_type_id = id

\* router.delete('/:id', ...)
DeleteCategoryType(id) ==
  /\ UNCHANGED <<expense_categories, income_categories, income_subcategories, expenses,
                 nextId, schema>>
  /\ creq' = CatReq("delete-type", <<>>, id, NoId)
  /\ IF TypeById(id) = {}
       THEN /\ response' = Reply(404, FALSE, <<"Category", "type", "not", "found">>)
            /\ UNCHANGED category_types
     ELSE IF UsedByExpense(id)
       THEN /\ response' = Reply(409, FALSE,
                 <<"Cannot", "delete", "category", "type", "that", "is", "being", "used",
                   "by", "expense", "categories">>)
            /\ UNCHANGED category_types
     ELSE IF UsedByIncome(id)
       THEN /\ response' = Reply(409, FALSE,
                 <<"Cannot", "delete", "category", "type", "that", "is", "being", "used",
                   "by", "income", "categories">>)
            /\ UNCHANGED category_types
     ELSE IF \/ \E c \in expense_categories : c.category_type_id = id
             \/ \E c \in income_categories : c.category_type_id = id
       \* the delete is refused by the foreign keys on category_type_id
       THEN /\ response' = Reply(500, FALSE, <<"Failed", "to", "delete", "category", "type">>)
            /\ UNCHANGED category_types
     ELSE /\ category_types' = category_types \ TypeById(id)
          /\ response' = Reply(200, TRUE, <<"Category", "type", "deleted", "successfully">>)

\* ------------------------------------------- ExpenseCategoriesService
\* a service call answers by returning (success) or throwing; status 0 marks
\* a reply that is not an HTTP response
Returned == Reply(0, TRUE, NoMessage)
Threw == Reply(0, FALSE, NoMessage)

SubNames == {<<"P", "a", "y">>, <<"T", "i", "p">>}

\* .eq('is_active', true)
ListActive(rows) == { c \in rows : c.is_active }

\* getAllCategories(): the rows returned (their order by category is not modelled)
getAllCategories == ListActive(expense_categories)

\* getSubcategories(categoryName): [] when .single() finds no active row
getSubcategories(categoryName) ==
  LET found == ListActive(ExpenseByName(categoryName)) IN
  IF Cardinality(found) = 1 THEN (CHOOSE c \in found : TRUE).subcategories ELSE <<>>

\* addCategory(categoryData)
AddCategory(category, category_type_id) ==
  /\ UNCHANGED <<category_types, income_categories, income_subcategories, expenses, schema>>
  /\ creq' = CatReq("addCategory", category, nextId.expense, category_type_id)
  /\ IF ExpenseInsertAccepted(category, category_type_id)
       THEN /\ nextId.expense <= MaxExpenseCategories
            /\ expense_categories' = expense_categories
                 \cup {NewExpenseCategory(nextId.expense, category, category_type_id)}
            /\ nextId' = [nextId EXCEPT !.expense = @ + 1]
            /\ response' = Returned
       ELSE /\ response' = Threw
            /\ UNCHANGED <<expense_categories, nextId>>

\* updateCategory(categoryId, {category}): a rename; refused by UNIQUE(category)
\* and by fk_expenses_category while an expense names the category
UpdateCategory(categoryId, category) ==
  /\ UNCHANGED <<category_types, income_categories, income_subcategories, expenses,
                 nextId, schema>>
  /\ creq' = CatReq("updateCategory", category, categoryId, NoId)
  /\ IF /\ ExpenseById(categoryId) # {}
        /\ \A c \in ExpenseByName(category) : c.id = categoryId
        /\ \A c \in ExpenseById(categoryId) :
             c.category = category \/ ~\E e \in expenses : e.category = c.category
       THEN /\ expense_categories' =
                 { IF c.id = categoryId THEN [c EXCEPT !.category = category] ELSE c :
                     c \in expense_categories }
            /\ response' = Returned
       ELSE /\ response' = Threw
            /\ UNCHANGED expense_categories

\* a hard delete
SoftDelete_Remove(rows, categoryId) == { c \in rows : c.id # categoryId }

\* .update({ is_active: false }).eq('id', categoryId)
SoftDelete(rows, categoryId) ==
  { IF c.id = categoryId THEN [c EXCEPT !.is_active = FALSE] ELSE c : c \in rows }

\* deleteCategory(categoryId)
DeleteCategory(categoryId) ==
  /\ UNCHANGED <<category_types, income_categories, income_subcategories, expenses,
                 nextId, schema>>
  /\ creq' = CatReq("deleteCategory", <<>>, categoryId, NoId)
  /\ expense_categories' = SoftDelete(expense_categories, categoryId)
  /\ response' = Returned

\* the read-modify-write of the embedded list shared by the three subcategory
\* calls; updated maps each row to the list the call computes from its list
WriteSubcategories(op, categoryId, subName, updated) ==
  /\ UNCHANGED <<category_types, income_categories, income_subcategories, expenses,
                 nextId, schema>>
  /\ creq' = CatReq(op, subName, categoryId, NoId)
  /\ IF ExpenseById(categoryId) = {}
       THEN /\ response' = Threw
            /\ UNCHANGED expense_categories
       ELSE /\ expense_categories' =
                 { IF c.id = categoryId
                     THEN [c EXCEPT !.subcategories = updated[c]]
                     ELSE c : c \in expense_categories }
            /\ response' = Returned

\* addSubcategory(categoryId, subcategoryData)
AddSubcategory(categoryId, subName) ==
  LET updated == [c \in expense_categories |->
                    Append(c.subcategories, [name |-> subName])] IN
  /\ \A c \in ExpenseById(categoryId) : Len(c.subcategories) < MaxSubcategories
  /\ WriteSubcategories("addSubcategory", categoryId, subName, updated)

\* updateSubcategory(categoryId, subcategoryName, {name})
UpdateSubcategory(categoryId, subName, newName) ==
  LET updated == [c \in expense_categories |->
                    [i \in 1..Len(c.subcategories) |->
                       IF c.subcategories[i].name = subName
                         THEN [c.subcategories[i] EXCEPT !.name = newName]
                         ELSE c.subcategories[i]]] IN
  WriteSubcategories("updateSubcategory", categoryId, subName, updated)

\* deleteSubcategory(categoryId, subcategoryName)
DeleteSubcategory(categoryId, subName) ==
  LET updated == [c \in expense_categories |->
                    SelectSeq(c.subcategories, LAMBDA sub : sub.name # subName)] IN
  WriteSubcategories("deleteSubcategory", categoryId, subName, updated)

\* an expense is recorded: expenses.category references expense_categories(category)
RecordExpense(category) ==
  /\ nextId.expenses <= MaxExpenses
  /\ ExpenseByName(category) # {}
  /\ expenses' = expenses \cup {[id |-> nextId.expenses, category |-> category]}
  /\ nextId' = [nextId EXCEPT !.expenses = @ + 1]
  /\ creq' = CatReq("recordExpense", category, nextId.expenses, NoId)
  /\ response' = Returned
  /\ UNCHANGED <<category_types, expense_categories, income_categories,
                 income_subcategories, schema>>

\* -------------------------------------------------- income validators
\* the 400 message of validateIncomeCategory, or NoMessage when it calls next()
IncomeCategoryError(name) ==
  IF Falsy(name) \/ name.type # "string" \/ Len(Trim(name.chars)) = 0
    THEN <<"Category", "name", "is", "required", "and", "must", "be", "a", "non-empty",
           "string">>
  ELSE IF Len(Trim(name.chars)) > MaxIncomeNameLen
    THEN <<"Category", "name", "must", "be", "100", "characters", "or", "less">>
  ELSE NoMessage

\* a category_id field: a string naming id, or not a string
IdString(id) == [type |-> "string", id |-> id]
IdMissing == [type |-> "undefined", id |-> NoId]

\* an is_recurring field
JsBoolean(b) == [type |-> "boolean", value |-> b]
NotBoolean == [type |-> "string", value |-> TRUE]

\* the 400 message of validateIncomeSubcategory, or NoMessage when it calls next()
IncomeSubcategoryError(category_id, name, is_recurring) ==
  IF category_id.type # "string"
    THEN <<"Category", "ID", "is", "required", "and", "must", "be", "a", "valid", "UUID">>
  ELSE IF Falsy(name) \/ name.type # "string" \/ Len(Trim(name.chars)) = 0
    THEN <<"Subcategory", "name", "is", "required", "and", "must", "be", "a", "non-empty",
           "string">>
  ELSE IF Len(Trim(name.chars)) > MaxIncomeNameLen
    THEN <<"Subcategory", "name", "must", "be", "100", "characters", "or", "less">>
  ELSE IF is_recurring.type # "boolean"
    THEN <<"is_recurring", "must", "be", "a", "boolean", "value">>
  ELSE NoMessage

IncomeNameInputs ==
  { JsString(Fun), JsString(fun), JsString(<<" ">> \o Fun), JsString(<<>>),
    JsString(Repeat("a", MaxIncomeNameLen + 1)), JsNumber }

SubNameInputs ==
  { JsString(n) : n \in SubNames } \cup { JsString(<<>>), JsUndefined }

IncomeExistsMessage ==
  <<"Income", "category", "with", "this", "name", "already", "exists">>

SubExistsMessage ==
  <<"Income", "subcategory", "with", "this", "name", "already", "exists", "for", "this",
    "category">>

\* ---------------------------------------------- POST /income-categories
\* a create without the pre-check
IncomeExists_Never(name) == FALSE

\* the pre-check: select id from income_categories where name = name
IncomeExists(name) == IncomeByName(name) # {}

DuplicateIncomeReply == Reply(409, FALSE, IncomeExistsMessage)

\* router.post('/income-categories', validateIncomeCategory, ...)
CreateIncomeCategory(rawName) ==
  LET err == IncomeCategoryError(rawName)
      name == Trim(rawName.chars) IN
  /\ UNCHANGED <<category_types, expense_categories, income_subcategories, expenses, schema>>
  /\ IF err # NoMessage
       THEN /\ response' = Reply(400, FALSE, err)
            /\ creq' = CatReq("create-income-invalid", <<>>, NoId, NoId)
            /\ UNCHANGED <<income_categories, nextId>>
     ELSE IF IncomeExists(name)
       THEN /\ response' = DuplicateIncomeReply
            /\ creq' = CatReq("create-income", name, NoId, NoId)
            /\ UNCHANGED <<income_categories, nextId>>
     ELSE IF ~IncomeInsertAccepted(name, NoId)
       \* insert({ name }) refused: name UNIQUE, or category_type_id NOT NULL
       THEN /\ response' = Reply(500, FALSE, <<"Failed", "to", "create", "income", "category">>)
            /\ creq' = CatReq("create-income", name, NoId, NoId)
            /\ UNCHANGED <<income_categories, nextId>>
     ELSE /\ nextId.income <= MaxIncomeCategories
          /\ income_categories' =
               income_categories \cup {NewIncomeCategory(nextId.income, name, NoId)}
          /\ nextId' = [nextId EXCEPT !.income = @ + 1]
          /\ response' = Reply(201, TRUE, <<"Income", "category", "created", "successfully">>)
          /\ creq' = CatReq("create-income", name, nextId.income, NoId)

\* duplicateCategory: select id ... eq('name', name).neq('id', id)
IncomeNameTaken(id, name) == \E c \in IncomeByName(name) : c.id # id

\* router.put('/income-categories/:id', validateIncomeCategory, ...)
UpdateIncomeCategory(id, rawName) ==
  LET err == IncomeCategoryError(rawName)
      name == Trim(rawName.chars) IN
  /\ UNCHANGED <<category_types, expense_categories, income_subcategories, expenses,
                 nextId, schema>>
  /\ IF err # NoMessage
       THEN /\ response' = Reply(400, FALSE, err)
            /\ creq' = CatReq("update-income-invalid", <<>>, id, NoId)
            /\ UNCHANGED income_categories
     ELSE IF IncomeById(id) = {}
       THEN /\ response' = Reply(404, FALSE, <<"Income", "category", "not", "found">>)
            /\ creq' = CatReq("update-income", name, id, NoId)
            /\ UNCHANGED income_categories
     ELSE IF IncomeNameTaken(id, name)
       THEN /\ response' = Reply(409, FALSE, IncomeExistsMessage)
            /\ creq' = CatReq("update-income", name, id, NoId)
            /\ UNCHANGED income_categories
     ELSE /\ income_categories' =
               { IF c.id = id THEN [c EXCEPT !.name = name] ELSE c : c \in income_categories }
          /\ response' = Reply(200, TRUE, <<"Income", "category", "updated", "successfully">>)
          /\ creq' = CatReq("update-income", name, id, NoId)

\* a parent key without ON DELETE CASCADE
Cascade_None(rows, id) == rows

\* income_subcategories.category_id ... ON DELETE CASCADE
Cascade(rows, id) == { x \in rows : x.category_id # id }

\* router.delete('/income-categories/:id', ...)
DeleteIncomeCategory(id) ==
  /\ UNCHANGED <<category_types, expense_categories, expenses, nextId, schema>>
  /\ creq' = CatReq("delete-income", <<>>, id, NoId)
  /\ IF IncomeById(id) = {}
       THEN /\ response' = Reply(404, FALSE, <<"Income", "category", "not", "found">>)
            /\ UNCHANGED <<income_categories, income_subcategories>>
       ELSE /\ income_categories' = income_categories \ IncomeById(id)
            /\ income_subcategories' = Cascade(income_subcategories, id)
            /\ response' = Reply(200, TRUE, <<"Income", "category", "deleted", "successfully">>)

\* ------------------------------------------- POST /income-subcategories
\* a pre-check that ignores the parent
SubExists_AnyParent(category_id, name) ==
  \E x \in income_subcategories : x.name = name

\* select id from income_subcategories where category_id = .. and name = ..
SubExists(category_id, name) == SubByKey(category_id, name) # {}

\* insert into income_subcategories: UNIQUE(category_id, name) and the parent key
SubInsertAccepted(category_id, name) ==
  SubByKey(category_id, name) = {} /\ IncomeById(category_id) # {}

\* router.post('/income-subcategories', validateIncomeSubcategory, ...)
CreateIncomeSubcategory(category_id, rawName, is_recurring) ==
  LET err == IncomeSubcategoryError(category_id, rawName, is_recurring)
      name == Trim(rawName.chars)
      parent == category_id.id IN
  /\ UNCHANGED <<category_types, expense_categories, income_categories, expenses, schema>>
  /\ IF err # NoMessage
       THEN /\ response' = Reply(400, FALSE, err)
            /\ creq' = CatReq("create-sub-invalid", <<>>, NoId, NoId)
            /\ UNCHANGED <<income_subcategories, nextId>>
     ELSE IF IncomeById(parent) = {}
       THEN /\ response' = Reply(404, FALSE, <<"Income", "category", "not", "found">>)
            /\ creq' = CatReq("create-sub", name, NoId, parent)
            /\ UNCHANGED <<income_subcategories, nextId>>
     ELSE IF SubExists(parent, name)
       THEN /\ response' = Reply(409, FALSE, SubExistsMessage)
            /\ creq' = CatReq("create-sub", name, NoId, parent)
            /\ UNCHANGED <<income_subcategories, nextId>>
     ELSE IF ~SubInsertAccepted(parent, name)
       THEN /\ response' = Reply(500, FALSE,
                 <<"Failed", "to", "create", "income", "subcategory">>)
            /\ creq' = CatReq("create-sub", name, NoId, parent)
            /\ UNCHANGED <<income_subcategories, nextId>>
     ELSE /\ nextId.sub <= MaxIncomeSubcategories
          /\ income_subcategories' = income_subcategories \cup
               {[id |-> nextId.sub, category_id |-> parent, name |-> name,
                 is_recurring |-> is_recurring.value]}
          /\ nextId' = [nextId EXCEPT !.sub = @ + 1]
          /\ response' = Reply(201, TRUE,
               <<"Income", "subcategory", "created", "successfully">>)
          /\ creq' = CatReq("create-sub", name, nextId.sub, parent)

\* select id ... where category_id = .. and name = .. and id <> :id
SubTaken(id, category_id, name) ==
  \E x \in SubByKey(category_id, name) : x.id # id

\* router.put('/income-subcategories/:id', validateIncomeSubcategory, ...)
UpdateIncomeSubcategory(id, category_id, rawName, is_recurring) ==
  LET err == IncomeSubcategoryError(category_id, rawName, is_recurring)
      name == Trim(rawName.chars)
      parent == category_id.id IN
  /\ UNCHANGED <<category_types, expense_categories, income_categories, expenses,
                 nextId, schema>>
  /\ IF err # NoMessage
       THEN /\ response' = Reply(400, FALSE, err)
            /\ creq' = CatReq("update-sub-invalid", <<>>, id, NoId)
            /\ UNCHANGED income_subcategories
     ELSE IF SubById(id) = {}
       THEN /\ response' = Reply(404, FALSE, <<"Income", "subcategory", "not", "found">>)
            /\ creq' = CatReq("update-sub", name, id, parent)
            /\ UNCHANGED income_subcategories
     ELSE IF IncomeById(parent) = {}
       THEN /\ response' = Reply(404, FALSE, <<"Income", "category", "not", "found">>)
            /\ creq' = CatReq("update-sub", name, id, parent)
            /\ UNCHANGED income_subcategories
     ELSE IF SubTaken(id, parent, name)
       THEN /\ response' = Reply(409, FALSE, SubExistsMessage)
            /\ creq' = CatReq("update-sub", name, id, parent)
            /\ UNCHANGED income_subcategories
     ELSE IF \E x \in SubByKey(parent, name) : x.id # id
       \* the update is refused by UNIQUE(category_id, name)
       THEN /\ response' = Reply(500, FALSE,
                 <<"Failed", "to", "update", "income", "subcategory">>)
            /\ creq' = CatReq("update-sub", name, id, parent)
            /\ UNCHANGED income_subcategories
     ELSE /\ income_subcategories' =
               { IF x.id = id
                   THEN [x EXCEPT !.category_id = parent, !.name = name,
                                  !.is_recurring = is_recurring.value]
                   ELSE x : x \in income_subcategories }
          /\ response' = Reply(200, TRUE,
               <<"Income", "subcategory", "updated", "successfully">>)
          /\ creq' = CatReq("update-sub", name, id, parent)

\* router.delete('/income-subcategories/:id', ...)
DeleteIncomeSubcategory(id) ==
  /\ UNCHANGED <<category_types, expense_categories, income_categories, expenses,
                 nextId, schema>>
  /\ creq' = CatReq("delete-sub", <<>>, id, NoId)
  /\ IF SubById(id) = {}
       THEN /\ response' = Reply(404, FALSE, <<"Income", "subcategory", "not", "found">>)
            /\ UNCHANGED income_subcategories
       ELSE /\ income_subcategories' = income_subcategories \ SubById(id)
            /\ response' = Reply(200, TRUE,
                 <<"Income", "subcategory", "deleted", "successfully">>)

\* ------------------------------------------------------ specifications
PayIdle ==
  /\ payments = {}
  /\ nextOrder = 1
  /\ env = [supabaseAdmin |-> TRUE, webhookSecret |-> TRUE]
  /\ req = PayReq("none", "none", NoOrder, FALSE, FALSE)
  /\ Quiet

CatIdle ==
  /\ category_types = {}
  /\ expense_categories = {}
  /\ income_categories = {}
  /\ income_subcategories = {}
  /\ expenses = {}
  /\ nextId = [types |-> 1, expense |-> 1, income |-> 1, sub |-> 1, expenses |-> 1]
  /\ schema = [typeLinkRequired |-> FALSE]
  /\ creq = CatReq("none", <<>>, NoId, NoId)
  /\ Quiet

payIdleVars == <<payments, nextOrder, env, req, user_profiles, profileCache, task,
                 openai, checkout>>

\* what a request served step by step leaves alone
payStore == <<payments, nextOrder, env, req, openai, checkout>>

\* the payment endpoints, over an untouched category store
InitPay ==
  /\ payments = {}
  /\ nextOrder = 1
  /\ env \in [supabaseAdmin : BOOLEAN, webhookSecret : BOOLEAN]
  /\ response = Reply(200, TRUE, NoMessage)
  /\ req = PayReq("none", "none", NoOrder, FALSE, FALSE)
  /\ CatIdle

StepCreateOrder ==
  /\ UNCHANGED catVars
  /\ \/ \E amount \in {0, 100}, userId \in Users \cup {NULL, GhostUser} :
          \E ok \in (IF amount # 0 /\ userId # NULL THEN BOOLEAN ELSE {TRUE}) :
            CreateOrder("good-token", amount, userId, ok)
     \/ \E auth \in AuthHeaders \ {"good-token"}, userId \in Users :
          CreateOrder(auth, 100, userId, TRUE)

\* a request the middleware stops is drawn with a complete, genuinely signed body
StepVerifyPayment ==
  /\ UNCHANGED catVars
  /\ \/ \E o \in OrderIds, p \in PaymentIds :
          \E s \in SignaturesFor(o, p) : VerifyPayment("good-token", o, p, s)
     \* one field missing, the others as in a genuine request
     \/ \E o \in OrderIds \cup {NoOrder}, p \in {NULL, "pay_1"} :
          /\ o = NoOrder \/ p = NULL
          /\ VerifyPayment("good-token", o, p, Hmac(KEY_SECRET, VerifyMessage(o, p)))
     \/ \E auth \in AuthHeaders \ {"good-token"}, o \in OrderIds :
          VerifyPayment(auth, o, "pay_1", Hmac(KEY_SECRET, VerifyMessage(o, "pay_1")))

StepWebhook ==
  /\ UNCHANGED catVars
  /\ \E body \in WebhookBodies : \E s \in WebhookSignatures(body) : Webhook(s, body)

\* the bodies sent to each path: the create-order branch reads amount and
\* userId only, the verify branch the three razorpay_ fields (and action on
\* the root path), the other paths nothing; the fields a path does not read
\* are drawn empty, or from one complete genuinely signed invoke body
EdgeBodiesFor(pathname) ==
  CASE pathname = "/payments" ->
         { b \in EdgeBodies :
             \/ b.razorpay_order_id = NoOrder /\ b.razorpay_payment_id = NULL /\ b.kind = "none"
             \/ b.action = "verify" /\ b.kind = "genuine" /\ b.razorpay_order_id # NoOrder
                  /\ b.razorpay_payment_id # NULL }
    [] pathname = "/payments/verify" ->
         { b \in EdgeBodies :
             /\ b.amount = 0 /\ b.userId = NULL
             /\ b.action = NULL \/ b.kind = "genuine"
             \* all three fields, none of them, or one missing from a genuine request
             /\ \/ b.razorpay_order_id # NoOrder /\ b.razorpay_payment_id # NULL /\ b.kind # "none"
                \/ b.razorpay_order_id = NoOrder /\ b.razorpay_payment_id = NULL /\ b.kind = "none"
                \/ b.razorpay_order_id = NoOrder /\ b.razorpay_payment_id = "pay_1" /\ b.kind = "genuine"
                \/ b.razorpay_order_id # NoOrder /\ b.razorpay_payment_id = NULL /\ b.kind = "genuine"
                \/ b.razorpay_order_id # NoOrder /\ b.razorpay_payment_id = "pay_1" /\ b.kind = "none" }
    [] pathname = "/payments/create-order" ->
         { b \in EdgeBodies : b.razorpay_order_id = NoOrder /\ b.razorpay_payment_id = NULL
                                /\ b.kind = "none" }
    [] OTHER ->
         { b \in EdgeBodies : b.amount = 0 /\ b.userId = NULL /\ b.action = NULL
                                /\ b.razorpay_order_id = NoOrder
                                /\ b.razorpay_payment_id = NULL /\ b.kind = "none" }

StepServe ==
  /\ UNCHANGED catVars
  /\ \E pathname \in EdgePaths : \E body \in EdgeBodiesFor(pathname) :
       \E ok \in (IF body.amount # 0 /\ body.userId # NULL THEN BOOLEAN ELSE {TRUE}) :
         \* the email step is reached only past the signature check
         \E email \in (IF pathname = "/payments/verify" /\ body.kind = "genuine"
                         THEN EmailOutcomes ELSE {"resolved"}) :
           Serve(pathname, body, ok, email)

NextPay == StepCreateOrder \/ StepVerifyPayment \/ StepWebhook \/ StepServe

\* the category tables before any row is inserted, with or without the
\* migration that makes category_type_id NOT NULL
InitCat ==
  /\ category_types = {}
  /\ expense_categories = {}
  /\ income_categories = {}
  /\ income_subcategories = {}
  /\ expenses = {}
  /\ nextId = [types |-> 1, expense |-> 1, income |-> 1, sub |-> 1, expenses |-> 1]
  /\ schema \in [typeLinkRequired : BOOLEAN]
  /\ creq = CatReq("none", <<>>, NoId, NoId)
  /\ response = Reply(200, TRUE, NoMessage)
  /\ PayIdle

TypeIds == 1..MaxTypes
ExpenseCategoryIds == 1..MaxExpenseCategories
IncomeCategoryIds == 1..MaxIncomeCategories
IncomeSubcategoryIds == 1..MaxIncomeSubcategories

\* the seeding outcomes are drawn for the requests that reach the seeding
StepCreateCategoryType ==
  /\ UNCHANGED payIdleVars
  /\ \E b \in CategoryTypeBodies : LET n == b[1] d == b[2] IN
       \E eo, io \in (IF CategoryTypeError(n, d) = NoMessage /\ TypeByName(Trim(n.chars)) = {}
                        THEN SeedOutcomes ELSE {"ok"}) :
         CreateCategoryType(n, d, eo, io)

StepUpdateCategoryType ==
  /\ UNCHANGED payIdleVars
  /\ \E id \in TypeIds, b \in CategoryTypeBodies :
       /\ CategoryTypeError(b[1], b[2]) # NoMessage => id = 1
       /\ UpdateCategoryType(id, b[1], b[2])

StepDeleteCategoryType ==
  /\ UNCHANGED payIdleVars
  /\ \E id \in TypeIds : DeleteCategoryType(id)

StepAddCategory ==
  /\ UNCHANGED payIdleVars
  /\ \E n \in Names, t \in TypeIds \cup {NoId} : AddCategory(n, t)

StepUpdateCategory ==
  /\ UNCHANGED payIdleVars
  /\ \E id \in ExpenseCategoryIds, n \in Names : UpdateCategory(id, n)

StepDeleteCategory ==
  /\ UNCHANGED payIdleVars
  /\ \E id \in ExpenseCategoryIds : DeleteCategory(id)

StepAddSubcategory ==
  /\ UNCHANGED payIdleVars
  /\ \E id \in ExpenseCategoryIds, n \in SubNames : AddSubcategory(id, n)

StepUpdateSubcategory ==
  /\ UNCHANGED payIdleVars
  /\ \E id \in ExpenseCategoryIds, n \in SubNames, m \in SubNames : UpdateSubcategory(id, n, m)

StepDeleteSubcategory ==
  /\ UNCHANGED payIdleVars
  /\ \E id \in ExpenseCategoryIds, n \in SubNames : DeleteSubcategory(id, n)

StepRecordExpense ==
  /\ UNCHANGED payIdleVars
  /\ \E n \in Names : RecordExpense(n)

StepCreateIncomeCategory ==
  /\ UNCHANGED payIdleVars
  /\ \E n \in IncomeNameInputs : CreateIncomeCategory(n)

StepUpdateIncomeCategory ==
  /\ UNCHANGED payIdleVars
  /\ \E id \in IncomeCategoryIds, n \in IncomeNameInputs :
       /\ IncomeCategoryError(n) # NoMessage => id = 1
       /\ UpdateIncomeCategory(id, n)

StepDeleteIncomeCategory ==
  /\ UNCHANGED payIdleVars
  /\ \E id \in IncomeCategoryIds : DeleteIncomeCategory(id)

CategoryIdInputs == { IdString(id) : id \in IncomeCategoryIds } \cup {IdMissing}

RecurringInputs == { JsBoolean(TRUE), JsBoolean(FALSE), NotBoolean }

\* request bodies <<category_id, name, is_recurring>>: every body the validation
\* accepts, and each field in turn invalid in an otherwise valid body
SubcategoryBodies ==
  LET valid == { b \in CategoryIdInputs \X SubNameInputs \X RecurringInputs :
                   IncomeSubcategoryError(b[1], b[2], b[3]) = NoMessage }
      one == CHOOSE b \in valid : b[1] = IdString(1) IN
  valid \cup { <<c, one[2], one[3]>> : c \in CategoryIdInputs }
        \cup { <<one[1], n, one[3]>> : n \in SubNameInputs }
        \cup { <<one[1], one[2], r>> : r \in RecurringInputs }

StepCreateIncomeSubcategory ==
  /\ UNCHANGED payIdleVars
  /\ \E b \in SubcategoryBodies : CreateIncomeSubcategory(b[1], b[2], b[3])

\* a body the validation rejects is sent for one id only: it is answered before
\* the id is read
StepUpdateIncomeSubcategory ==
  /\ UNCHANGED payIdleVars
  /\ \E id \in IncomeSubcategoryIds, b \in SubcategoryBodies :
       /\ IncomeSubcategoryError(b[1], b[2], b[3]) # NoMessage => id = 1
       /\ UpdateIncomeSubcategory(id, b[1], b[2], b[3])

StepDeleteIncomeSubcategory ==
  /\ UNCHANGED payIdleVars
  /\ \E id \in IncomeSubcategoryIds : DeleteIncomeSubcategory(id)

\* category types with the categories that reference them
NextTypes ==
  \/ StepCreateCategoryType \/ StepUpdateCategoryType \/ StepDeleteCategoryType
  \/ StepAddCategory \/ StepDeleteCategory

\* income categories and their subcategory rows
NextIncome ==
  \/ StepCreateIncomeCategory \/ StepUpdateIncomeCategory \/ StepDeleteIncomeCategory
  \/ StepCreateIncomeSubcategory \/ StepUpdateIncomeSubcategory
  \/ StepDeleteIncomeSubcategory

\* expense categories, their embedded subcategory lists, and expenses
NextExpense ==
  \/ StepAddCategory \/ StepUpdateCategory \/ StepDeleteCategory
  \/ StepAddSubcategory \/ StepUpdateSubcategory \/ StepDeleteSubcategory
  \/ StepRecordExpense

\* the category tables once create_category_types.sql has inserted a default type
InitSeeded ==
  /\ category_types = {[id |-> 1, type_name |-> Fun]}
  /\ expense_categories = {}
  /\ income_categories = {}
  /\ income_subcategories = {}
  /\ expenses = {}
  /\ nextId = [types |-> 2, expense |-> 1, income |-> 1, sub |-> 1, expenses |-> 1]
  /\ schema \in [typeLinkRequired : BOOLEAN]
  /\ creq = CatReq("none", <<>>, NoId, NoId)
  /\ response = Reply(200, TRUE, NoMessage)
  /\ PayIdle

SpecPay == InitPay /\ [][NextPay]_vars

SpecTypes == InitCat /\ [][NextTypes]_vars

SpecIncome == InitCat /\ [][NextIncome]_vars

SpecExpense == InitSeeded /\ [][NextExpense]_vars

\* creating and renaming category types and income categories
NextRename ==
  \/ StepCreateCategoryType \/ StepUpdateCategoryType
  \/ StepCreateIncomeCategory \/ StepUpdateIncomeCategory

SpecRename == InitCat /\ [][NextRename]_vars

\* every create and update route that runs a validator, sent every body its
\* validator rejects and, of the bodies it accepts, those naming Fun or Pay
StepValidatedType ==
  /\ UNCHANGED payIdleVars
  /\ \E b \in CategoryTypeBodies, eo, io \in SeedOutcomes, id \in TypeIds :
       /\ b[1] # JsString(fun)
       /\ \/ eo = "ok" /\ io = "ok" /\ UpdateCategoryType(id, b[1], b[2])
          \/ id = 1 /\ CreateCategoryType(b[1], b[2], eo, io)

StepValidatedIncome ==
  /\ UNCHANGED payIdleVars
  /\ \E n \in IncomeNameInputs, id \in IncomeCategoryIds :
       /\ n # JsString(fun)
       /\ \/ UpdateIncomeCategory(id, n)
          \/ id = 1 /\ CreateIncomeCategory(n)

StepValidatedSubcategory ==
  /\ UNCHANGED payIdleVars
  /\ \E b \in SubcategoryBodies, id \in IncomeSubcategoryIds :
       /\ b[2] \in { JsString(n) : n \in SubNames } => b[2].chars = <<"P", "a", "y">>
       /\ \/ UpdateIncomeSubcategory(id, b[1], b[2], b[3])
          \/ id = 1 /\ CreateIncomeSubcategory(b[1], b[2], b[3])

NextValidated == StepValidatedType \/ StepValidatedIncome \/ StepValidatedSubcategory

SpecValidated == InitCat /\ [][NextValidated]_vars

\* ================================================ handlers, await by await
\* Each await of a handler is a step of its own: between two of them the other
\* request's steps may run.

\* the handler of request p answers and ends
Answer(p, reply, id) ==
  /\ response' = reply
  /\ creq' = CatReq(task[p].op, task[p].name, id, task[p].parent)
  /\ task' = [task EXCEPT ![p] = NoTask]

\* the handler of request p goes on to its next await
Goto(p, pc) ==
  /\ task' = [task EXCEPT ![p].pc = pc]
  /\ UNCHANGED <<response, creq>>

At(p, op, pc) == task[p].op = op /\ task[p].pc = pc

\* router.post('/income-categories', validateIncomeCategory, ...)
RaceCreateIncomeCategory(p, rawName) ==
  /\ UNCHANGED <<category_types, expense_categories, income_subcategories, expenses,
                 schema, user_profiles,
                 profileCache>>
  /\ \/ /\ task[p].pc = "idle"
        /\ UNCHANGED <<income_categories, nextId>>
        /\ IF IncomeCategoryError(rawName) # NoMessage
             THEN /\ response' = Reply(400, FALSE, IncomeCategoryError(rawName))
                  /\ creq' = CatReq("create-income-invalid", <<>>, NoId, NoId)
                  /\ UNCHANGED task
             ELSE /\ task' = [task EXCEPT ![p] = Task("existingCategory", "create-income",
                                                     Trim(rawName.chars), NoId, NoId, <<>>)]
                  /\ UNCHANGED <<response, creq>>
     \/ /\ At(p, "create-income", "existingCategory")
        /\ UNCHANGED <<income_categories, nextId>>
        /\ IF IncomeExists(task[p].name)
             THEN Answer(p, DuplicateIncomeReply, NoId)
             ELSE Goto(p, "insert")
     \/ /\ At(p, "create-income", "insert")
        /\ IF ~IncomeInsertAccepted(task[p].name, NoId)
             THEN /\ Answer(p, Reply(500, FALSE,
                            <<"Failed", "to", "create", "income", "category">>), NoId)
                  /\ UNCHANGED <<income_categories, nextId>>
             ELSE /\ nextId.income <= MaxIncomeCategories
                  /\ income_categories' =
                       income_categories \cup {NewIncomeCategory(nextId.income, task[p].name, NoId)}
                  /\ nextId' = [nextId EXCEPT !.income = @ + 1]
                  /\ Answer(p, Reply(201, TRUE,
                            <<"Income", "category", "created", "successfully">>), nextId.income)

\* router.delete('/income-categories/:id', ...)
RaceDeleteIncomeCategory(p, id) ==
  /\ UNCHANGED <<category_types, expense_categories, expenses, nextId, schema, user_profiles,
                 profileCache>>
  /\ \/ /\ task[p].pc = "idle"
        /\ task' = [task EXCEPT ![p] = Task("existingCategory", "delete-income", <<>>, id,
                                            NoId, <<>>)]
        /\ UNCHANGED <<response, creq, income_categories, income_subcategories>>
     \/ /\ At(p, "delete-income", "existingCategory")
        /\ UNCHANGED <<income_categories, income_subcategories>>
        /\ IF IncomeById(task[p].id) = {}
             THEN Answer(p, Reply(404, FALSE, <<"Income", "category", "not", "found">>),
                         task[p].id)
             ELSE Goto(p, "delete")
     \/ /\ At(p, "delete-income", "delete")
        /\ income_categories' = income_categories \ IncomeById(task[p].id)
        /\ income_subcategories' = Cascade(income_subcategories, task[p].id)
        /\ Answer(p, Reply(200, TRUE, <<"Income", "category", "deleted", "successfully">>),
                  task[p].id)

\* router.post('/income-subcategories', validateIncomeSubcategory, ...)
RaceCreateIncomeSubcategory(p, category_id, rawName, is_recurring) ==
  /\ UNCHANGED <<category_types, expense_categories, income_categories, expenses, schema,
                 user_profiles,
                 profileCache>>
  /\ \/ /\ task[p].pc = "idle"
        /\ UNCHANGED <<income_subcategories, nextId>>
        /\ IF IncomeSubcategoryError(category_id, rawName, is_recurring) # NoMessage
             THEN /\ response' = Reply(400, FALSE,
                         IncomeSubcategoryError(category_id, rawName, is_recurring))
                  /\ creq' = CatReq("create-sub-invalid", <<>>, NoId, NoId)
                  /\ UNCHANGED task
             ELSE /\ task' = [task EXCEPT ![p] = Task("category", "create-sub",
                                 Trim(rawName.chars), NoId, category_id.id,
                                 <<is_recurring.value>>)]
                  /\ UNCHANGED <<response, creq>>
     \/ /\ At(p, "create-sub", "category")
        /\ UNCHANGED <<income_subcategories, nextId>>
        /\ IF IncomeById(task[p].parent) = {}
             THEN Answer(p, Reply(404, FALSE, <<"Income", "category", "not", "found">>), NoId)
             ELSE Goto(p, "existingSubcategory")
     \/ /\ At(p, "create-sub", "existingSubcategory")
        /\ UNCHANGED <<income_subcategories, nextId>>
        /\ IF SubExists(task[p].parent, task[p].name)
             THEN Answer(p, Reply(409, FALSE, SubExistsMessage), NoId)
             ELSE Goto(p, "insert")
     \/ /\ At(p, "create-sub", "insert")
        /\ IF ~SubInsertAccepted(task[p].parent, task[p].name)
             THEN /\ Answer(p, Reply(500, FALSE,
                            <<"Failed", "to", "create", "income", "subcategory">>), NoId)
                  /\ UNCHANGED <<income_subcategories, nextId>>
             ELSE /\ nextId.sub <= MaxIncomeSubcategories
                  /\ income_subcategories' = income_subcategories \cup
                       {[id |-> nextId.sub, category_id |-> task[p].parent,
                         name |-> task[p].name, is_recurring |-> task[p].data[1]]}
                  /\ nextId' = [nextId EXCEPT !.sub = @ + 1]
                  /\ Answer(p, Reply(201, TRUE,
                       <<"Income", "subcategory", "created", "successfully">>), nextId.sub)

\* update ... eq('id', id): refused by the parent key or by UNIQUE(category_id,
\* name), and .single() fails when no row has the id any more
SubUpdateAccepted(id, category_id, name) ==
  /\ SubById(id) # {}
  /\ IncomeById(category_id) # {}
  /\ ~SubTaken(id, category_id, name)

\* router.put('/income-subcategories/:id', validateIncomeSubcategory, ...)
RaceUpdateIncomeSubcategory(p, id, category_id, rawName, is_recurring) ==
  /\ UNCHANGED <<category_types, expense_categories, income_categories, expenses, nextId,
                 schema, user_profiles,
                 profileCache>>
  /\ \/ /\ task[p].pc = "idle"
        /\ UNCHANGED income_subcategories
        /\ IF IncomeSubcategoryError(category_id, rawName, is_recurring) # NoMessage
             THEN /\ response' = Reply(400, FALSE,
                         IncomeSubcategoryError(category_id, rawName, is_recurring))
                  /\ creq' = CatReq("update-sub-invalid", <<>>, id, NoId)
                  /\ UNCHANGED task
             ELSE /\ task' = [task EXCEPT ![p] = Task("existingSubcategory", "update-sub",
                                 Trim(rawName.chars), id, category_id.id,
                                 <<is_recurring.value>>)]
                  /\ UNCHANGED <<response, creq>>
     \/ /\ At(p, "update-sub", "existingSubcategory")
        /\ UNCHANGED income_subcategories
        /\ IF SubById(task[p].id) = {}
             THEN Answer(p, Reply(404, FALSE, <<"Income", "subcategory", "not", "found">>),
                         task[p].id)
             ELSE Goto(p, "category")
     \/ /\ At(p, "update-sub", "category")
        /\ UNCHANGED income_subcategories
        /\ IF IncomeById(task[p].parent) = {}
             THEN Answer(p, Reply(404, FALSE, <<"Income", "category", "not", "found">>),
                         task[p].id)
             ELSE Goto(p, "duplicateSubcategory")
     \/ /\ At(p, "update-sub", "duplicateSubcategory")
        /\ UNCHANGED income_subcategories
        /\ IF SubTaken(task[p].id, task[p].parent, task[p].name)
             THEN Answer(p, Reply(409, FALSE, SubExistsMessage), task[p].id)
             ELSE Goto(p, "update")
     \/ /\ At(p, "update-sub", "update")
        /\ IF ~SubUpdateAccepted(task[p].id, task[p].parent, task[p].name)
             THEN /\ Answer(p, Reply(500, FALSE,
                            <<"Failed", "to", "update", "income", "subcategory">>), task[p].id)
                  /\ UNCHANGED income_subcategories
             ELSE /\ income_subcategories' =
                       { IF x.id = task[p].id
                           THEN [x EXCEPT !.category_id = task[p].parent,
                                          !.name = task[p].name,
                                          !.is_recurring = task[p].data[1]]
                           ELSE x : x \in income_subcategories }
                  /\ Answer(p, Reply(200, TRUE,
                       <<"Income", "subcategory", "updated", "successfully">>), task[p].id)

\* request bodies of the concurrent requests: one name per table, and one body
\* each validator rejects
RaceIncomeNames == {JsString(<<"P", "a", "y">>), JsString(<<>>)}

RaceSubcategoryBodies ==
  { <<IdString(id), JsString(<<"T", "i", "p">>), JsBoolean(FALSE)>> : id \in IncomeCategoryIds }
    \cup {<<IdMissing, JsString(<<"T", "i", "p">>), JsBoolean(FALSE)>>}

StepRaceCreateIncomeCategory ==
  /\ UNCHANGED payStore
  /\ \E p \in Procs, n \in RaceIncomeNames : RaceCreateIncomeCategory(p, n)

StepRaceDeleteIncomeCategory ==
  /\ UNCHANGED payStore
  /\ \E p \in Procs, id \in IncomeCategoryIds : RaceDeleteIncomeCategory(p, id)

StepRaceCreateIncomeSubcategory ==
  /\ UNCHANGED payStore
  /\ \E p \in Procs, b \in RaceSubcategoryBodies :
       RaceCreateIncomeSubcategory(p, b[1], b[2], b[3])

StepRaceUpdateIncomeSubcategory ==
  /\ UNCHANGED payStore
  /\ \E p \in Procs, id \in IncomeSubcategoryIds, b \in RaceSubcategoryBodies :
       /\ b[1] = IdMissing => id = 1
       /\ RaceUpdateIncomeSubcategory(p, id, b[1], b[2], b[3])

\* two requests at a time on the income tables
NextRace ==
  \/ StepRaceCreateIncomeCategory \/ StepRaceDeleteIncomeCategory
  \/ StepRaceCreateIncomeSubcategory \/ StepRaceUpdateIncomeSubcategory

SpecRace == InitCat /\ [][NextRace]_vars

\* ------------------------- ExpenseCategoriesService, await by await
\* the select and the update of addSubcategory, updateSubcategory and
\* deleteSubcategory; updated maps each row to the list the call computes from
\* the list it selected
RaceWriteSubcategories(p, op, categoryId, subName, updated) ==
  /\ UNCHANGED <<category_types, income_categories, income_subcategories, expenses,
                 nextId, schema, user_profiles,
                 profileCache>>
  /\ \/ /\ task[p].pc = "idle"
        /\ UNCHANGED expense_categories
        /\ IF ExpenseById(categoryId) = {}
             THEN /\ response' = Threw
                  /\ creq' = CatReq(op, subName, categoryId, NoId)
                  /\ UNCHANGED task
             ELSE /\ \E c \in ExpenseById(categoryId) :
                       task' = [task EXCEPT ![p] = Task("update", op, subName, categoryId,
                                                       NoId, updated[c])]
                  /\ UNCHANGED <<response, creq>>
     \/ /\ At(p, op, "update") /\ task[p].id = categoryId /\ task[p].name = subName
        /\ expense_categories' =
             { IF c.id = categoryId
                 THEN [c EXCEPT !.subcategories = task[p].data]
                 ELSE c : c \in expense_categories }
        /\ Answer(p, IF ExpenseById(categoryId) = {} THEN Threw ELSE Returned, categoryId)

\* addSubcategory(categoryId, subcategoryData)
RaceAddSubcategory(p, categoryId, subName) ==
  LET updated == [c \in expense_categories |->
                    Append(c.subcategories, [name |-> subName])] IN
  /\ task[p].pc = "idle" =>
       \A c \in ExpenseById(categoryId) : Len(c.subcategories) < MaxListLen
  /\ RaceWriteSubcategories(p, "addSubcategory", categoryId, subName, updated)

\* updateSubcategory(categoryId, subcategoryName, {name})
RaceUpdateSubcategory(p, categoryId, subName, newName) ==
  LET updated == [c \in expense_categories |->
                    [i \in 1..Len(c.subcategories) |->
                       IF c.subcategories[i].name = subName
                         THEN [c.subcategories[i] EXCEPT !.name = newName]
                         ELSE c.subcategories[i]]] IN
  RaceWriteSubcategories(p, "updateSubcategory", categoryId, subName, updated)

\* deleteSubcategory(categoryId, subcategoryName)
RaceDeleteSubcategory(p, categoryId, subName) ==
  LET updated == [c \in expense_categories |->
                    SelectSeq(c.subcategories, LAMBDA sub : sub.name # subName)] IN
  RaceWriteSubcategories(p, "deleteSubcategory", categoryId, subName, updated)

\* one expense category, as the schema script seeds it, with no subcategory or
\* with one
InitLists ==
  /\ category_types = {}
  /\ expense_categories \in
       { {[NewExpenseCategory(1, Fun, NoId) EXCEPT !.subcategories = l]} :
           l \in {<<>>, <<[name |-> <<"P", "a", "y">>]>>} }
  /\ income_categories = {}
  /\ income_subcategories = {}
  /\ expenses = {}
  /\ nextId = [types |-> 1, expense |-> 2, income |-> 1, sub |-> 1, expenses |-> 1]
  /\ schema = [typeLinkRequired |-> FALSE]
  /\ creq = CatReq("none", <<>>, NoId, NoId)
  /\ response = Reply(200, TRUE, NoMessage)
  /\ PayIdle

StepRaceAddSubcategory ==
  /\ UNCHANGED payStore
  /\ \E p \in Procs, id \in ExpenseCategoryIds, n \in SubNames : RaceAddSubcategory(p, id, n)

StepRaceUpdateSubcategory ==
  /\ UNCHANGED payStore
  /\ \E p \in Procs, id \in ExpenseCategoryIds, n \in SubNames, m \in SubNames :
       RaceUpdateSubcategory(p, id, n, m)

StepRaceDeleteSubcategory ==
  /\ UNCHANGED payStore
  /\ \E p \in Procs, id \in ExpenseCategoryIds, n \in SubNames :
       RaceDeleteSubcategory(p, id, n)

\* two service calls at a time on the embedded lists
NextLists == StepRaceAddSubcategory \/ StepRaceUpdateSubcategory \/ StepRaceDeleteSubcategory

SpecLists == InitLists /\ [][NextLists]_vars

\* --------------------------------------- ProfileService, await by await
\* the columns mapFormToRow / mapProfileFormToRow compute from the form
Forms == {"form-a", "form-b"}

ProfilesOf(userId) == { i \in DOMAIN user_profiles : user_profiles[i].user_id = userId }

\* a user_profiles table without a unique user_id
ProfileInsertAccepted_Always(userId) == TRUE

\* insert into user_profiles: user_id is the conflict target of the project's
\* upserts, so it is unique
ProfileInsertAccepted(userId) == ProfilesOf(userId) = {}

\* the methods that call this.clearCache(userId) after their write
ClearsCache(op) == op \in {"saveProfileForm", "updateProfile"}

\* the cache once the write of method op for userId has succeeded
AfterWrite(op, userId) ==
  IF ClearsCache(op) THEN [profileCache EXCEPT ![userId] = <<>>] ELSE profileCache

\* saveProfile(formData, userId) and saveProfileForm(formData, userId): update,
\* then insert if the update returned no row; setOnboarding is mapFormToRow's
\* option, set by saveProfile only; mapProfileFormToRow writes the picture
\* column too, null for a form without one
RaceSaveProfile(p, op, setOnboarding, userId, form) ==
  /\ UNCHANGED <<category_types, expense_categories, income_categories,
                 income_subcategories, expenses, nextId, schema>>
  /\ \/ /\ task[p].pc = "idle"
        /\ IF ProfilesOf(userId) # {}
             THEN /\ user_profiles' =
                       [i \in DOMAIN user_profiles |->
                          IF user_profiles[i].user_id = userId
                            THEN [user_profiles[i] EXCEPT
                                    !.form = form,
                                    !.onboarding_completed = @ \/ setOnboarding,
                                    !.profile_picture_url =
                                       IF setOnboarding THEN @ ELSE NULL]
                            ELSE user_profiles[i]]
                  /\ profileCache' = AfterWrite(op, userId)
                  /\ response' = Returned
                  /\ creq' = CatReq(op, <<>>, userId, NoId)
                  /\ UNCHANGED task
             ELSE /\ task' = [task EXCEPT ![p] = Task("insert", op, <<>>, userId, NoId,
                                                     <<form>>)]
                  /\ UNCHANGED <<user_profiles, profileCache, response, creq>>
     \/ /\ At(p, op, "insert") /\ task[p].id = userId /\ task[p].data = <<form>>
        /\ IF ~ProfileInsertAccepted(userId)
             THEN /\ Answer(p, Threw, userId)
                  /\ UNCHANGED <<user_profiles, profileCache>>
             ELSE /\ Len(user_profiles) < MaxProfiles
                  /\ user_profiles' = Append(user_profiles,
                       [user_id |-> userId, onboarding_completed |-> setOnboarding,
                        form |-> form, profile_picture_url |-> NULL])
                  /\ profileCache' = AfterWrite(op, userId)
                  /\ Answer(p, Returned, userId)

StepSaveProfile ==
  /\ UNCHANGED payStore
  /\ \E p \in Procs, userId \in ProfileUsers, form \in Forms :
       RaceSaveProfile(p, "saveProfile", TRUE, userId, form)

StepSaveProfileForm ==
  /\ UNCHANGED payStore
  /\ \E p \in Procs, userId \in ProfileUsers, form \in Forms :
       RaceSaveProfile(p, "saveProfileForm", FALSE, userId, form)

\* two profile saves at a time
NextProfiles == StepSaveProfile \/ StepSaveProfileForm

SpecProfiles == InitCat /\ [][NextProfiles]_vars

\* ------------------------------------------ ProfileService and its cache
\* .from(table).select('*').eq('user_id', userId).order('created_at', desc).limit(1)
LatestProfile(userId) ==
  IF ProfilesOf(userId) = {} THEN <<>>
  ELSE <<user_profiles[CHOOSE i \in ProfilesOf(userId) : \A j \in ProfilesOf(userId) : j <= i]>>

\* getProfile(userId): a cache entry younger than _cacheTimeout is returned
\* without a query; otherwise the row the query returns is cached, when there
\* is one, once the query's promise has resolved
GetProfile(p, userId, queryOk) ==
  /\ UNCHANGED <<category_types, expense_categories, income_categories,
                 income_subcategories, expenses, nextId, schema, user_profiles>>
  /\ \/ /\ task[p].pc = "idle"
        /\ UNCHANGED profileCache
        /\ IF profileCache[userId] # <<>>
             THEN /\ response' = Returned
                  /\ creq' = CatReq("getProfile", <<>>, userId, NoId)
                  /\ UNCHANGED task
           ELSE IF ~queryOk
             THEN /\ response' = Threw
                  /\ creq' = CatReq("getProfile", <<>>, userId, NoId)
                  /\ UNCHANGED task
             ELSE /\ task' = [task EXCEPT ![p] = Task("query", "getProfile", <<>>, userId,
                                                     NoId, LatestProfile(userId))]
                  /\ UNCHANGED <<response, creq>>
     \/ /\ At(p, "getProfile", "query") /\ task[p].id = userId
        /\ profileCache' = IF task[p].data # <<>>
                             THEN [profileCache EXCEPT ![userId] = task[p].data]
                             ELSE profileCache
        /\ Answer(p, Returned, userId)

\* the update of updateProfile, updateProfilePicture and removeProfilePicture:
\* .update(...).eq('user_id', userId).select().maybeSingle(), which succeeds
\* with data null when the user has no row
UpdateProfileColumns(op, userId, changed) ==
  /\ UNCHANGED <<category_types, expense_categories, income_categories,
                 income_subcategories, expenses, nextId, schema, task>>
  /\ user_profiles' = [i \in DOMAIN user_profiles |->
                         IF user_profiles[i].user_id = userId
                           THEN changed[i] ELSE user_profiles[i]]
  /\ profileCache' = AfterWrite(op, userId)
  /\ response' = Returned
  /\ creq' = CatReq(op, <<>>, userId, NoId)

\* updateProfile(userId, updates)
UpdateProfile(userId, form) ==
  UpdateProfileColumns("updateProfile", userId,
    [i \in DOMAIN user_profiles |-> [user_profiles[i] EXCEPT !.form = form]])

\* updateProfilePicture(userId, profilePictureUrl)
UpdateProfilePicture(userId, profilePictureUrl) ==
  UpdateProfileColumns("updateProfilePicture", userId,
    [i \in DOMAIN user_profiles |->
       [user_profiles[i] EXCEPT !.profile_picture_url = profilePictureUrl]])

\* removeProfilePicture(userId)
RemoveProfilePicture(userId) ==
  UpdateProfileColumns("removeProfilePicture", userId,
    [i \in DOMAIN user_profiles |-> [user_profiles[i] EXCEPT !.profile_picture_url = NULL]])

\* _cacheTimeout has passed since the entry's timestamp: getProfile ignores it
ExpireCache(userId) ==
  /\ profileCache[userId] # <<>>
  /\ profileCache' = [profileCache EXCEPT ![userId] = <<>>]
  /\ UNCHANGED <<category_types, expense_categories, income_categories,
                 income_subcategories, expenses, nextId, schema, user_profiles, task,
                 response, creq>>

\* the user whose profile is read and written
CacheUsers == {1}

StepGetProfile ==
  /\ UNCHANGED payStore
  /\ \E p \in Procs, userId \in CacheUsers, queryOk \in BOOLEAN : GetProfile(p, userId, queryOk)

StepCacheSaveProfile ==
  /\ UNCHANGED payStore
  /\ \E p \in Procs, userId \in CacheUsers, form \in Forms :
       RaceSaveProfile(p, "saveProfile", TRUE, userId, form)

StepCacheSaveProfileForm ==
  /\ UNCHANGED payStore
  /\ \E p \in Procs, userId \in CacheUsers, form \in Forms :
       RaceSaveProfile(p, "saveProfileForm", FALSE, userId, form)

StepUpdateProfile ==
  /\ UNCHANGED payStore
  /\ \E userId \in CacheUsers, form \in Forms : UpdateProfile(userId, form)

StepUpdateProfilePicture ==
  /\ UNCHANGED payStore
  /\ \E userId \in CacheUsers : UpdateProfilePicture(userId, "picture-url")

StepRemoveProfilePicture ==
  /\ UNCHANGED payStore
  /\ \E userId \in CacheUsers : RemoveProfilePicture(userId)

StepExpireCache ==
  /\ UNCHANGED payStore
  /\ \E userId \in CacheUsers : ExpireCache(userId)

\* reads and writes of one user's profile through the service
NextCache ==
  \/ StepGetProfile \/ StepCacheSaveProfile \/ StepCacheSaveProfileForm
  \/ StepUpdateProfile \/ StepUpdateProfilePicture \/ StepRemoveProfilePicture
  \/ StepExpireCache

SpecCache == InitCat /\ [][NextCache]_vars

\* ------------------------------ POST /category-types, await by await
\* insert into category_types: type_name UNIQUE
TypeInsertAccepted(name) == TypeByName(name) = {}

\* router.post('/', validateCategoryType, ...): the pre-check, the insert and
\* the two seeding inserts, whose results the handler does not read
RaceCreateCategoryType(p, type_name, description) ==
  /\ UNCHANGED <<income_subcategories, expenses, schema, user_profiles,
                 profileCache>>
  /\ \/ /\ task[p].pc = "idle"
        /\ UNCHANGED <<category_types, expense_categories, income_categories, nextId>>
        /\ IF CategoryTypeError(type_name, description) # NoMessage
             THEN /\ response' = Reply(400, FALSE, CategoryTypeError(type_name, description))
                  /\ creq' = CatReq("create-type-invalid", <<>>, NoId, NoId)
                  /\ UNCHANGED task
             ELSE /\ task' = [task EXCEPT ![p] = Task("existingType", "create-type",
                                 Trim(type_name.chars), NoId, NoId, <<>>)]
                  /\ UNCHANGED <<response, creq>>
     \/ /\ At(p, "create-type", "existingType")
        /\ UNCHANGED <<category_types, expense_categories, income_categories, nextId>>
        /\ IF TypeExists(task[p].name)
             THEN Answer(p, Reply(409, FALSE,
                    <<"Category", "type", "with", "this", "name", "already", "exists">>), NoId)
             ELSE Goto(p, "insert")
     \/ /\ At(p, "create-type", "insert")
        /\ UNCHANGED <<expense_categories, income_categories>>
        /\ IF ~TypeInsertAccepted(task[p].name)
             THEN /\ Answer(p, Reply(500, FALSE,
                            <<"Failed", "to", "create", "category", "type">>), NoId)
                  /\ UNCHANGED <<category_types, nextId>>
             ELSE /\ nextId.types <= MaxTypes
                  /\ category_types' =
                       category_types \cup {[id |-> nextId.types, type_name |-> task[p].name]}
                  /\ nextId' = [nextId EXCEPT !.types = @ + 1]
                  /\ task' = [task EXCEPT ![p].pc = "seedExpense", ![p].id = nextId.types]
                  /\ UNCHANGED <<response, creq>>
     \/ /\ At(p, "create-type", "seedExpense")
        /\ UNCHANGED <<category_types, income_categories>>
        /\ IF ExpenseInsertAccepted(task[p].name, task[p].id)
             THEN /\ nextId.expense <= MaxExpenseCategories
                  /\ expense_categories' = expense_categories \cup
                       {NewExpenseCategory(nextId.expense, task[p].name, task[p].id)}
                  /\ nextId' = [nextId EXCEPT !.expense = @ + 1]
             ELSE UNCHANGED <<expense_categories, nextId>>
        /\ Goto(p, "seedIncome")
     \/ /\ At(p, "create-type", "seedIncome")
        /\ UNCHANGED <<category_types, expense_categories>>
        /\ IF IncomeInsertAccepted(task[p].name, task[p].id)
             THEN /\ nextId.income <= MaxIncomeCategories
                  /\ income_categories' = income_categories \cup
                       {NewIncomeCategory(nextId.income, task[p].name, task[p].id)}
                  /\ nextId' = [nextId EXCEPT !.income = @ + 1]
             ELSE UNCHANGED <<income_categories, nextId>>
        /\ Answer(p, CreatedReply("ok", "ok"), task[p].id)

\* a valid type name, which is the name of the income category the concurrent
\* requests create, and one the validator rejects
RaceTypeNames == {JsString(<<"P", "a", "y">>), JsString(<<"F", "4">>)}

StepRaceCreateCategoryType ==
  /\ UNCHANGED payStore
  /\ \E p \in Procs, n \in RaceTypeNames : RaceCreateCategoryType(p, n, JsUndefined)

\* simultaneous creates on the three tables
NextCreates ==
  \/ StepRaceCreateCategoryType \/ StepRaceCreateIncomeCategory
  \/ StepRaceCreateIncomeSubcategory

SpecCreates == InitCat /\ [][NextCreates]_vars

\* the Express payment routes alone
NextExpress == StepCreateOrder \/ StepVerifyPayment \/ StepWebhook

SpecExpress == InitPay /\ [][NextExpress]_vars

\* ------------------------------------------------------------ no request
\* the server's tables and handlers while only library code runs
serverVars == <<payments, nextOrder, env, response, req, category_types, expense_categories,
                income_categories, income_subcategories, expenses, nextId, schema, creq,
                user_profiles, profileCache, task>>

ServerIdle ==
  /\ payments = {}
  /\ nextOrder = 1
  /\ env = [supabaseAdmin |-> TRUE, webhookSecret |-> TRUE]
  /\ req = PayReq("none", "none", NoOrder, FALSE, FALSE)
  /\ response = Reply(200, TRUE, NoMessage)
  /\ category_types = {}
  /\ expense_categories = {}
  /\ income_categories = {}
  /\ income_subcategories = {}
  /\ expenses = {}
  /\ nextId = [types |-> 1, expense |-> 1, income |-> 1, sub |-> 1, expenses |-> 1]
  /\ schema = [typeLinkRequired |-> FALSE]
  /\ creq = CatReq("none", <<>>, NoId, NoId)
  /\ task = [p \in Procs |-> NoTask]
  /\ user_profiles = <<>>
  /\ profileCache = [u \in ProfileUsers |-> <<>>]

\* ------------------------------------- OpenAIService: the category it returns
\* length of availableCategories
MaxAvailable == 2
\* length of the category string the model answers with
MaxCategoryLen == 2

UpperCase == <<"A","B","C","D","E","F","G","H","I","J","K","L","M","N","O","P","Q","R","S",
               "T","U","V","W","X","Y","Z">>
LowerCase == <<"a","b","c","d","e","f","g","h","i","j","k","l","m","n","o","p","q","r","s",
               "t","u","v","w","x","y","z">>

\* String.prototype.toLowerCase
ToLowerCase(str) ==
  [i \in DOMAIN str |->
     IF \E k \in DOMAIN UpperCase : UpperCase[k] = str[i]
       THEN LowerCase[CHOOSE k \in DOMAIN UpperCase : UpperCase[k] = str[i]]
       ELSE str[i]]

\* a check that lets every answer through
CategoryExists_Always(available, category) == TRUE

\* availableCategories.some(cat => cat.category.toLowerCase() === data.category.toLowerCase())
\* (cat.name for income categories); available holds the names of the objects
CategoryExists(available, category) ==
  \E i \in DOMAIN available : ToLowerCase(available[i]) = ToLowerCase(category)

\* what a call gives back: it threw, or it returned a category (<<>> for null)
AiThrew == [threw |-> TRUE, category |-> <<>>]
AiReturned(category) == [threw |-> FALSE, category |-> category]

\* validated.category of validateExtractedData and validateExtractedIncomeData
ValidatedCategory(category, available) ==
  IF Falsy(category) \/ Len(available) = 0
    THEN AiReturned(<<>>)
  \* data.category.toLowerCase on a number: TypeError
  ELSE IF category.type # "string"
    THEN AiThrew
  ELSE IF CategoryExists(available, category.chars)
    THEN AiReturned(<<category.chars>>)
  ELSE AiReturned(<<>>)

\* analyzeCategoryOnly from the completion's content on: trim, find, return the
\* list's own spelling; every failure is rethrown as 'Category analysis failed'
AnalyzedCategory(content, available) ==
  LET aiResponse == Trim(content.chars)
      found == { i \in DOMAIN available : ToLowerCase(available[i]) = ToLowerCase(aiResponse) } IN
  IF content.type # "string" \/ aiResponse = <<>>
    THEN AiThrew
  ELSE IF found = {}
    THEN AiThrew
  ELSE AiReturned(<<available[CHOOSE i \in found : \A j \in found : i <= j]>>)

AiChars == {"F", "f", "O", "o", " "}

\* data.category, or choices[0]?.message?.content
AiCategories ==
  { JsString(str) : str \in UNION { [1..n -> AiChars] : n \in 0..MaxCategoryLen } }
    \cup {JsUndefined, JsNumber}

AvailableNames == {<<"F", "o">>, <<"f", "O">>, <<"O">>}

AvailableLists == UNION { [1..n -> AvailableNames] : n \in 0..MaxAvailable }

\* an answer of the model and a list of categories, before they are validated
InitAnalysis ==
  /\ ServerIdle
  /\ checkout = NoCheckout
  /\ openai \in { [op |-> "none", category |-> c, available |-> a, result |-> <<>>] :
                    c \in AiCategories, a \in AvailableLists }

Validate(op) ==
  /\ openai.op = "none"
  /\ openai' = [openai EXCEPT !.op = op,
                              !.result = <<ValidatedCategory(openai.category, openai.available)>>]
  /\ UNCHANGED <<serverVars, checkout>>

StepValidateExtractedData == Validate("validateExtractedData")

StepValidateExtractedIncomeData == Validate("validateExtractedIncomeData")

StepAnalyzeCategoryOnly ==
  /\ openai.op = "none"
  /\ openai' = [openai EXCEPT !.op = "analyzeCategoryOnly",
                              !.result = <<AnalyzedCategory(openai.category, openai.available)>>]
  /\ UNCHANGED <<serverVars, checkout>>

NextAnalysis ==
  StepValidateExtractedData \/ StepValidateExtractedIncomeData \/ StepAnalyzeCategoryOnly

SpecAnalysis == InitAnalysis /\ [][NextAnalysis]_vars

\* creating category types with their default categories, soft-deleting
\* expense categories, deleting income categories and deleting types
NextSoftDelete ==
  \/ StepCreateCategoryType \/ StepDeleteCategory
  \/ StepDeleteIncomeCategory \/ StepDeleteCategoryType

SpecSoftDelete == InitCat /\ [][NextSoftDelete]_vars

\* ---------------------------------- paymentService.js: loadRazorpayScript
\* <script> elements ever appended to document.body
MaxScripts == 3
\* loadRazorpayScript calls ever made
MaxCalls == 4

\* calls whose promise is still pending: one per script that is loading
Loading == { i \in DOMAIN checkout.scripts : checkout.scripts[i] = "loading" }

CallsMade == Len(checkout.settled) + Cardinality(Loading)

\* loadRazorpayScript(), up to the return of its promise
LoadRazorpayScript ==
  /\ CallsMade < MaxCalls
  /\ IF checkout.razorpayScriptLoaded
       \* if (razorpayScriptLoaded) return true
       THEN checkout' = [checkout EXCEPT !.settled = Append(@, TRUE)]
       \* document.body.appendChild(script)
       ELSE /\ Len(checkout.scripts) < MaxScripts
            /\ checkout' = [checkout EXCEPT !.scripts = Append(@, "loading")]

\* script.onload = () => { razorpayScriptLoaded = true; resolve(true); }
ScriptOnload(i) ==
  /\ i \in Loading
  /\ checkout' = [razorpayScriptLoaded |-> TRUE,
                  scripts |-> [checkout.scripts EXCEPT ![i] = "loaded"],
                  settled |-> Append(checkout.settled, TRUE)]

\* script.onerror = () => resolve(false)
ScriptOnerror(i) ==
  /\ i \in Loading
  /\ checkout' = [checkout EXCEPT !.scripts[i] = "failed",
                                  !.settled = Append(@, FALSE)]

InitCheckout ==
  /\ ServerIdle
  /\ openai = NoAnalysis
  /\ checkout = NoCheckout

StepLoadRazorpayScript ==
  /\ UNCHANGED <<serverVars, openai>>
  /\ LoadRazorpayScript

StepScriptOnload ==
  /\ UNCHANGED <<serverVars, openai>>
  /\ \E i \in 1..MaxScripts : ScriptOnload(i)

StepScriptOnerror ==
  /\ UNCHANGED <<serverVars, openai>>
  /\ \E i \in 1..MaxScripts : ScriptOnerror(i)

NextCheckout == StepLoadRazorpayScript \/ StepScriptOnload \/ StepScriptOnerror

SpecCheckout == InitCheckout /\ [][NextCheckout]_vars

\* =============================================================== claims
StatusOf(rows, orderId) == RowOf(rows, orderId).status

\* C1: a verify request (Express or edge function) for an order whose payments
\* row exists leaves the row captured with verified_at set and answers success
\* when its signature is the HMAC of orderId|paymentId, and otherwise leaves the
\* row failed and answers 400 {success:false, message:'Invalid signature'}.
C1_VerifyOutcome ==
  (/\ req.op = "verify" /\ req.hadRow
   /\ req.endpoint = "edge" => env.supabaseAdmin)
  => LET row == RowOf(payments, req.order) IN
     IF req.genuine
       THEN /\ row.status = "captured" /\ row.verified_at # NULL
            /\ response.status = 200 /\ response.success
       ELSE /\ row.status = "failed"
            /\ response = Reply(400, FALSE, <<"Invalid", "signature">>)

C1_Witness ==
  /\ req.op = "verify" /\ req.endpoint = "edge" /\ req.hadRow /\ ~req.genuine
  /\ StatusOf(payments, req.order) = "failed" /\ response.status = 400

C3_Lifecycle ==
  /\ [](\A r \in payments : r.status \in {"created", "captured", "failed"})
  /\ [][\A o \in OrderIds :
          /\ (~HasRow(payments, o) /\ HasRow(payments', o)) =>
               /\ StatusOf(payments', o) = "created"
               /\ req'.op = "create-order" /\ o = nextOrder /\ nextOrder' = o + 1
          /\ (HasRow(payments, o) /\ HasRow(payments', o)) =>
               /\ (StatusOf(payments, o) # "captured" /\ StatusOf(payments', o) = "captured")
                    => req'.op \in {"verify", "webhook"} /\ req'.genuine /\ req'.order = o
               /\ (StatusOf(payments, o) # "failed" /\ StatusOf(payments', o) = "failed")
                    => req'.op = "verify" /\ ~req'.genuine /\ req'.order = o]_vars

C3_Witness ==
  \E r \in payments :
    /\ r.status = "captured" /\ req.op = "webhook" /\ req.genuine
    /\ req.order = r.razorpay_order_id
    /\ \E q \in payments : q.status = "created"

\* C4: a POST /category-types with a valid name answers 201 and inserts exactly
\* one row when no row has that name, and answers 409 and changes nothing when
\* one has (names compared exactly); no two rows ever share a type_name.
C4_CreateOncePerName ==
  /\ [](\A t, u \in category_types : t.type_name = u.type_name => t = u)
  /\ [][creq'.op = "create-type" =>
          IF TypeByName(creq'.name) = {}
            THEN /\ response'.status = 201
                 /\ category_types' =
                      category_types \cup {[id |-> creq'.id, type_name |-> creq'.name]}
                 /\ Cardinality(category_types') = Cardinality(category_types) + 1
            ELSE /\ response'.status = 409
                 /\ category_types' = category_types]_vars

C4_Witness ==
  /\ creq.op = "create-type" /\ response.status = 409
  /\ \E t, u \in category_types : t.type_name = Fun /\ u.type_name = fun

Referenced(id) ==
  \/ \E c \in expense_categories : c.category_type_id = id
  \/ \E c \in income_categories : c.category_type_id = id

\* C5: DELETE /category-types/:id answers 409 and removes nothing when an
\* expense or income category references the type, and removes the row when the
\* type exists and nothing references it.
C5_DeleteGuardedByReferences ==
  [][(creq'.op = "delete-type" /\ TypeById(creq'.id) # {}) =>
       IF Referenced(creq'.id)
         THEN /\ response'.status = 409
              /\ UNCHANGED <<category_types, expense_categories, income_categories>>
         ELSE /\ response'.status = 200 /\ response'.success
              /\ category_types' = category_types \ TypeById(creq'.id)
              /\ UNCHANGED <<expense_categories, income_categories>>]_vars

C5_Witness ==
  /\ creq.op = "delete-type" /\ response.status = 409
  /\ ~\E c \in expense_categories : c.category_type_id = creq.id
  /\ \E c \in income_categories : c.category_type_id = creq.id

\* C6: creating subcategory N under category C is answered 409 without changing
\* the store when C already has N, and succeeds when only other categories have
\* N; no two income_subcategories rows ever share (category_id, name).
C6_SubcategoryUniquePerParent ==
  /\ [](\A x, y \in income_subcategories :
          (x.category_id = y.category_id /\ x.name = y.name) => x = y)
  /\ [][(creq'.op = "create-sub" /\ IncomeById(creq'.parent) # {}) =>
          IF SubByKey(creq'.parent, creq'.name) # {}
            THEN /\ response'.status = 409
                 /\ UNCHANGED <<income_subcategories, income_categories>>
            ELSE /\ response'.status = 201
                 /\ \E r \in BOOLEAN : income_subcategories' = income_subcategories \cup
                      {[id |-> creq'.id, category_id |-> creq'.parent,
                        name |-> creq'.name, is_recurring |-> r]}]_vars

C6_Witness ==
  /\ creq.op = "create-sub" /\ response.status = 201
  /\ \E x, y \in income_subcategories :
       x.name = y.name /\ x.category_id # y.category_id /\ x.id = creq.id

EndsWithAlreadyExists(message) ==
  /\ Len(message) >= 2
  /\ message[Len(message) - 1] = "already" /\ message[Len(message)] = "exists"

\* C7: POST /income-categories with a name that already exists answers 409 with
\* success:false and a message ending in 'already exists', and leaves
\* income_categories unchanged.
C7_DuplicateIncomeCategory ==
  [][(creq'.op = "create-income" /\ IncomeByName(creq'.name) # {}) =>
       /\ response'.status = 409 /\ ~response'.success
       /\ EndsWithAlreadyExists(response'.message)
       /\ income_categories' = income_categories]_vars

C7_Witness ==
  /\ creq.op = "create-income" /\ response.status = 409
  /\ IncomeByName(creq.name) # {}

C9_SeedsAlwaysPresent ==
  [][(creq'.op = "create-type" /\ response'.status = 201) =>
       /\ category_types' = category_types \cup {[id |-> creq'.id, type_name |-> creq'.name]}
       /\ \E c \in expense_categories' :
            c.category = creq'.name /\ c.category_type_id = creq'.id
       /\ \E c \in income_categories' :
            c.name = creq'.name /\ c.category_type_id = creq'.id]_vars

\* C9 as amended: a 201 for name T leaves exactly one new category_types row
\* named T; it adds at most one expense_categories row and at most one
\* income_categories row, each named T and linked to the new type's id, adds none
\* where a category of that name already existed, and changes no existing row.
C9_SeedsAtMostOnce ==
  [][(creq'.op = "create-type" /\ response'.status = 201) =>
       /\ category_types' = category_types \cup {[id |-> creq'.id, type_name |-> creq'.name]}
       /\ creq'.id \notin { t.id : t \in category_types }
       /\ expense_categories \subseteq expense_categories'
       /\ income_categories \subseteq income_categories'
       /\ Cardinality(expense_categories' \ expense_categories) <= 1
       /\ Cardinality(income_categories' \ income_categories) <= 1
       /\ \A c \in expense_categories' \ expense_categories :
            /\ c.category = creq'.name /\ c.category_type_id = creq'.id
            /\ ExpenseByName(creq'.name) = {}
       /\ \A c \in income_categories' \ income_categories :
            /\ c.name = creq'.name /\ c.category_type_id = creq'.id
            /\ IncomeByName(creq'.name) = {}]_vars

C9_Witness ==
  /\ creq.op = "create-type" /\ response.status = 201
  /\ \E c \in expense_categories : c.category = creq.name /\ c.category_type_id = creq.id
  /\ \E c \in income_categories : c.name = creq.name /\ c.category_type_id # creq.id

\* C10: when the category_types insert of a POST /category-types succeeded, the
\* answer is 201 for the new row and the row is in the store, whatever the two
\* seeding inserts did.
C10_SeedingBestEffort ==
  [][(creq'.op = "create-type" /\ category_types' # category_types) =>
       /\ response'.status = 201 /\ response'.success
       /\ [id |-> creq'.id, type_name |-> creq'.name] \in category_types'
       /\ category_types \subseteq category_types']_vars

C10_Witness ==
  /\ creq.op = "create-type" /\ response.status = 201
  /\ [id |-> creq.id, type_name |-> creq.name] \in category_types
  /\ ExpenseByName(creq.name) = {} /\ IncomeByName(creq.name) = {}

catTables == <<category_types, expense_categories, income_categories,
               income_subcategories, expenses>>

\* C11: a PUT /category-types/:id or PUT /income-categories/:id with a valid
\* body answers 404 and changes no row when the id has no row, answers 409 and
\* changes no row when a different row holds the name, and otherwise (the
\* row's own current name included) is not a conflict and answers 200.
C11_RenameConflicts ==
  /\ [][creq'.op = "update-type" =>
          IF TypeById(creq'.id) = {}
            THEN response'.status = 404 /\ UNCHANGED catTables
          ELSE IF \E t \in category_types : t.type_name = creq'.name /\ t.id # creq'.id
            THEN response'.status = 409 /\ UNCHANGED catTables
          ELSE /\ response'.status = 200
               /\ \E t \in category_types' : t.id = creq'.id /\ t.type_name = creq'.name]_vars
  /\ [][creq'.op = "update-income" =>
          IF IncomeById(creq'.id) = {}
            THEN response'.status = 404 /\ UNCHANGED catTables
          ELSE IF \E c \in income_categories : c.name = creq'.name /\ c.id # creq'.id
            THEN response'.status = 409 /\ UNCHANGED catTables
          ELSE /\ response'.status = 200
               /\ \E c \in income_categories' : c.id = creq'.id /\ c.name = creq'.name]_vars

C11_Witness ==
  /\ creq.op = "update-income" /\ response.status = 409
  /\ IncomeById(creq.id) # {}
  /\ \E c \in income_categories : c.name = creq.name /\ c.id # creq.id
  /\ \E t, u \in category_types : t.id # u.id

InvalidOps ==
  {"create-type-invalid", "update-type-invalid", "create-income-invalid",
   "update-income-invalid", "create-sub-invalid", "update-sub-invalid"}

\* C12: a create or update request on category types, income categories or
\* income subcategories whose body fails validation is answered 400 with the
\* store unchanged, and only a body that passes validation reaches the
\* handler's existence checks and writes.
C12_ValidationFirst ==
  /\ [][creq'.op \in InvalidOps =>
          /\ response'.status = 400 /\ ~response'.success
          /\ response'.message # NoMessage
          /\ UNCHANGED <<catTables, nextId>>]_vars
  /\ [][creq'.op \in {"create-type", "update-type"} =>
          /\ creq'.name # <<>> /\ Len(creq'.name) <= MaxTypeNameLen
          /\ \A i \in 1..Len(creq'.name) :
               creq'.name[i] \in LetterChars \cup Whitespace \cup {"-", "'"}]_vars
  /\ [][creq'.op \in {"create-income", "update-income", "create-sub", "update-sub"} =>
          creq'.name # <<>> /\ Len(creq'.name) <= MaxIncomeNameLen]_vars
  /\ [][creq'.op \in {"create-sub", "update-sub"} => creq'.parent # NoId]_vars

C12_Witness ==
  /\ creq.op = "update-sub-invalid" /\ response.status = 400
  /\ category_types # {} /\ income_categories # {} /\ income_subcategories # {}

\* C13: deleting an income category removes every income_subcategories row of
\* that category, and in every interleaving of category deletes with
\* subcategory creates and updates each income_subcategories row references an
\* income_categories row that exists.
C13_NoOrphanSubcategories ==
  /\ [](\A x \in income_subcategories : IncomeById(x.category_id) # {})
  /\ [][\A p \in Procs :
          At(p, "delete-income", "delete") /\ task'[p].pc = "idle" =>
            /\ IncomeById(task[p].id)' = {}
            /\ \A x \in income_subcategories' : x.category_id # task[p].id]_vars

\* a category is deleted, with its subcategory, while another request that saw
\* the category is about to write a subcategory row of it
C13_Witness ==
  /\ creq.op = "delete-income" /\ response.status = 200
  /\ IncomeById(creq.id) = {}
  /\ nextId.sub > 1 /\ income_subcategories = {}
  /\ \E p \in Procs : /\ task[p].pc \in {"insert", "update"}
                      /\ task[p].op \in {"create-sub", "update-sub"}
                      /\ task[p].parent = creq.id

\* the write or duplicate check request p is at finds its name held by another row
DuplicateAt(p) ==
  \/ /\ task[p].op = "create-income" /\ task[p].pc \in {"existingCategory", "insert"}
     /\ IncomeByName(task[p].name) # {}
  \/ /\ task[p].op = "create-sub" /\ task[p].pc \in {"existingSubcategory", "insert"}
     /\ SubByKey(task[p].parent, task[p].name) # {}
  \/ /\ task[p].op = "update-sub" /\ task[p].pc \in {"duplicateSubcategory", "update"}
     /\ SubById(task[p].id) # {}
     /\ \E x \in SubByKey(task[p].parent, task[p].name) : x.id # task[p].id

\* C15: every create or update request rejected because its name duplicates an
\* existing row is answered 409, in every interleaving of concurrent requests,
\* also when only the store's unique constraint detects the duplicate at the
\* write, after the handler's own check passed.
C15_DuplicateIs409 ==
  [][\A p \in Procs :
       DuplicateAt(p) /\ task'[p].pc = "idle" => response'.status = 409]_vars

\* C14: within each expense category's embedded subcategories list the names
\* are pairwise distinct after any sequence of addSubcategory, updateSubcategory
\* and deleteSubcategory calls that starts from a list with distinct names.
C14_DistinctSubcategoryNames ==
  \A c \in expense_categories :
    \A i, j \in 1..Len(c.subcategories) :
      i # j => c.subcategories[i].name # c.subcategories[j].name

\* C20: of two concurrent addSubcategory calls on the same expense category
\* neither loses the other's subcategory: the update of an addSubcategory call
\* stores the list the row holds at that moment with the new subcategory
\* appended.
C20_NoLostUpdate ==
  [][\A p \in Procs :
       At(p, "addSubcategory", "update") /\ task'[p].pc = "idle" =>
         \A c \in ExpenseById(task[p].id) :
           \E d \in expense_categories' :
             /\ d.id = c.id
             /\ d.subcategories = Append(c.subcategories, [name |-> task[p].name])]_vars

\* C16: the payment endpoints never swallow a store error of their primary
\* operation: create-order answers success only if the created payments row
\* was inserted, and verify answers success only if the payments row of that
\* order id was updated to captured.
C16_StoreErrorsSurface ==
  /\ [][req'.op = "create-order" /\ response'.success =>
          \E r \in payments' : r.razorpay_order_id = req'.order /\ r.status = "created"]_vars
  /\ [][req'.op = "verify" /\ req'.endpoint = "express" /\ response'.success =>
          \E r \in payments' : r.razorpay_order_id = req'.order /\ r.status = "captured"]_vars

\* C17: a POST to /api/payments/create-order or /api/payments/verify without an
\* Authorization header, without a token or with a token that fails
\* verification is answered 401, mints no processor order and inserts or
\* updates no payments row, although a second handler without the middleware
\* is registered on each path.
C17_JwtProtected ==
  [][req'.endpoint = "express" =>
     \A auth \in AuthHeaders \ {"good-token"} :
       /\ \A userId \in Users :
            CreateOrder(auth, 100, userId, TRUE) =>
              response'.status = 401 /\ ~response'.success /\ UNCHANGED <<payments, nextOrder>>
       /\ \A o \in OrderIds :
            VerifyPayment(auth, o, "pay_1", Hmac(KEY_SECRET, VerifyMessage(o, "pay_1"))) =>
              response'.status = 401 /\ ~response'.success /\ UNCHANGED <<payments, nextOrder>>]_vars

\* a genuinely signed verify request for an order with a created row is stopped
\* by the middleware
C17_Witness ==
  /\ req.op = "verify-unauthorized" /\ response.status = 401
  /\ \E r \in payments : r.status = "created"

\* C19: a validly signed payment.captured webhook for order id O, delivered
\* once or again, leaves the payments row of O captured with the delivered
\* payment id; a delivery that finds the row already in that state changes
\* nothing, and no delivery creates a second row for O.
C19_WebhookIdempotent ==
  [][req'.op = "webhook" =>
     \A body \in WebhookBodies :
       body.event = "payment.captured" /\ Webhook(Hmac(WEBHOOK_SECRET, body), body) =>
         LET O == WebhookOrderId(body)
             P == body.payment.id
             before == { r \in payments : r.razorpay_order_id = O }
             after == { r \in payments' : r.razorpay_order_id = O } IN
         /\ Cardinality(after) <= 1
         /\ \A r \in after : r.status = "captured" /\ r.razorpay_payment_id = P
         /\ (\A r \in before : r.status = "captured" /\ r.razorpay_payment_id = P)
              => payments' = payments]_vars

\* a delivery for an order whose row exists, which is captured after it
C19_Witness ==
  /\ req.op = "webhook" /\ req.hadRow /\ response.status = 200
  /\ \E r \in payments : /\ r.razorpay_order_id = req.order /\ r.status = "captured"
                         /\ r.razorpay_payment_id = "pay_2"
  /\ \E r \in payments : r.razorpay_order_id # req.order

C21_ConcurrentDuplicateCreates ==
  /\ [](/\ \A t, u \in category_types : t.type_name = u.type_name => t = u
        /\ \A c, d \in income_categories : c.name = d.name => c = d
        /\ \A x, y \in income_subcategories :
             x.category_id = y.category_id /\ x.name = y.name => x = y)
  /\ [][\A p \in Procs :
          task[p].pc # "idle" /\ task'[p].pc = "idle" /\ response'.status = 201 =>
            CASE task[p].op = "create-income" ->
                   /\ IncomeByName(task[p].name) = {}
                   /\ \E c \in income_categories' : c.id = creq'.id /\ c.name = task[p].name
              [] task[p].op = "create-sub" ->
                   /\ SubByKey(task[p].parent, task[p].name) = {}
                   /\ \E x \in income_subcategories' :
                        x.id = creq'.id /\ x.name = task[p].name
              [] OTHER ->
                   \E t \in category_types :
                     /\ t.id = task[p].id /\ t.type_name = task[p].name
                     /\ \A u \in category_types : u.type_name = t.type_name => u = t]_vars

\* two requests passed the pre-check for the same income category name; one
\* was answered 201 and the other's insert was refused
C21_Witness ==
  /\ creq.op = "create-income" /\ response.status = 500
  /\ \E c \in income_categories : c.name = creq.name /\ c.category_type_id = NoId
  /\ \A p \in Procs : task[p].pc = "idle"

ProfileWrites ==
  {"saveProfile", "saveProfileForm", "updateProfile", "updateProfilePicture",
   "removeProfilePicture"}

\* C22: when a ProfileService write for user U (saveProfile, saveProfileForm,
\* updateProfile, updateProfilePicture, removeProfilePicture) has completed
\* successfully the cache holds no entry for U, and a getProfile(U) answered
\* from the cache returns the row as it is stored.
C22_CacheClearedOnWrite ==
  /\ [][creq'.op \in ProfileWrites /\ response'.success /\ user_profiles' # user_profiles
          => profileCache'[creq'.id] = <<>>]_vars
  /\ [][creq'.op = "getProfile" /\ task' = task /\ profileCache[creq'.id] # <<>>
          => profileCache[creq'.id] = LatestProfile(creq'.id)]_vars

\* C23: in the edge function's verify branch, when the signature matches and the
\* payments row is updated, the row is captured and the answer is 200 with
\* success:true whatever the confirmation-email step does.
C23_EmailBestEffort ==
  (/\ req.op = "verify" /\ req.endpoint = "edge" /\ req.genuine
   /\ req.hadRow /\ env.supabaseAdmin)
  => /\ StatusOf(payments, req.order) = "captured"
     /\ response.status = 200 /\ response.success

\* C24: once a row is captured, no later verify request (whatever its signature)
\* and no later webhook delivery for its order id changes its status.
C24_CapturedStaysCaptured ==
  [][\A r \in payments : r.status = "captured" =>
       StatusOf(payments', r.razorpay_order_id) = "captured"]_vars

\* C25: a POST to the edge function's root path whose body has action 'verify'
\* and the three razorpay fields is handled by the verify branch (signature
\* checked, row updated), not by the create-order branch.
C25_RootPathVerify ==
  [][req'.endpoint = "edge" =>
       \A body \in EdgeBodiesFor("/payments") : \A ok \in BOOLEAN : \A email \in EmailOutcomes :
         (/\ body.action = "verify" /\ body.razorpay_order_id # NoOrder
          /\ body.razorpay_payment_id # NULL /\ EdgeSignature(body) # NoSignature
          /\ Serve("/payments", body, ok, email))
         => req'.op = "verify"]_vars

\* C28: a webhook delivery answers 200 and writes nothing when the webhook
\* secret is unset; answers 400 and writes nothing when its signature is not the
\* HMAC of the body; answers 200 and writes nothing when it is validly signed
\* but its event is not payment.captured or its payload has no order id.
C28_WebhookWritesOnlyWhenRelevant ==
  [][LET quiet(status) == response' = SendStatus(status) /\ payments' = payments
         noOrder(body) == body.payment.order_id = NoOrder /\ body.order = NoOrder IN
     req'.endpoint = "express" /\ req'.op \notin {"create-order", "verify"} =>
       \* secret unset: whatever was delivered
       /\ ~env.webhookSecret =>
            \/ quiet(200)
            \/ \A body \in WebhookBodies : \A s \in WebhookSignatures(body) : ~Webhook(s, body)
       \* a step that is not a quiet 400 is not a delivery with a mismatching signature
       /\ env.webhookSecret /\ ~quiet(400) =>
            \A body \in WebhookBodies :
              \A s \in WebhookSignatures(body) \ {Hmac(WEBHOOK_SECRET, body)} : ~Webhook(s, body)
       \* a step that is not a quiet 200 is not a signed delivery of another event
       \* or of one without an order id
       /\ env.webhookSecret /\ ~quiet(200) =>
            \A body \in WebhookBodies :
              body.event # "payment.captured" \/ noOrder(body)
                => ~Webhook(Hmac(WEBHOOK_SECRET, body), body)]_vars

\* a validly signed delivery of another event, answered 200 next to a row that
\* is still created
C28_Witness ==
  /\ req.op = "webhook-other" /\ env.webhookSecret /\ response = SendStatus(200)
  /\ \E r \in payments : r.status = "created"

\* C29: without the Supabase admin client the edge function writes no row and
\* every branch still gives its normal answer; a verify request whose signature
\* does not match is answered 400 {success:false, message:'Invalid signature'}.
C29_WorksWithoutDatabase ==
  [][req'.endpoint = "edge" /\ ~env.supabaseAdmin =>
       /\ payments' = payments
       /\ \A body \in EdgeBodiesFor("/payments/verify") : \A email \in EmailOutcomes :
            (/\ body.razorpay_order_id # NoOrder /\ body.razorpay_payment_id # NULL
             /\ body.kind \in {"other-payment", "forged"}
             /\ Serve("/payments/verify", body, TRUE, email))
            => response' = Reply(400, FALSE, <<"Invalid", "signature">>)]_vars

\* C26: the category returned by validateExtractedData, validateExtractedIncomeData
\* and analyzeCategoryOnly is absent (null, or the call fails) or equal ignoring
\* case to one of the available categories; with an empty list the validated
\* category is always null.
C26_CategoryFromAllowList ==
  openai.op # "none" =>
    LET r == openai.result[1] IN
    /\ ~r.threw /\ r.category # <<>> =>
         \E i \in DOMAIN openai.available :
           ToLowerCase(openai.available[i]) = ToLowerCase(r.category[1])
    /\ openai.available = <<>> /\ openai.op # "analyzeCategoryOnly" =>
         ~r.threw /\ r.category = <<>>

\* a validated category that is in the list only when case is ignored
C26_Witness ==
  /\ openai.op = "validateExtractedIncomeData"
  /\ openai.result # <<>> /\ ~openai.result[1].threw
  /\ openai.result[1].category = <<(<<"f", "o">>)>>
  /\ \A i \in DOMAIN openai.available : openai.available[i] # <<"f", "o">>

\* C27: DELETE /category-types/:id answers 409 and removes nothing for a type
\* referenced only by expense_categories rows with is_active = false; and since
\* deleteCategory only clears is_active, a type keeps every expense category
\* that references it and so is never deleted once its seeding has succeeded.
C27_SoftDeletedStillReferences ==
  [][/\ (/\ creq'.op = "delete-type" /\ TypeById(creq'.id) # {}
         /\ \E c \in expense_categories : c.category_type_id = creq'.id
         /\ \A c \in expense_categories : c.category_type_id = creq'.id => ~c.is_active
         /\ ~\E c \in income_categories : c.category_type_id = creq'.id)
        => response'.status = 409 /\ category_types' = category_types
     /\ \A c \in expense_categories :
          /\ \E d \in expense_categories' : d.id = c.id /\ d.category_type_id = c.category_type_id
          /\ \A t \in TypeById(c.category_type_id) : t \in category_types']_vars

\* a refused delete of a type whose only references are soft-deleted expense
\* categories
C27_Witness ==
  /\ creq.op = "delete-type" /\ response.status = 409
  /\ \E c \in expense_categories : c.category_type_id = creq.id
  /\ \A c \in expense_categories : c.category_type_id = creq.id => ~c.is_active
  /\ ~\E c \in income_categories : c.category_type_id = creq.id

\* C30: across any number of loadRazorpayScript calls, overlapping ones
\* included, a script element is appended only while no load is in progress and
\* none has succeeded, so at most one script is ever loading or loaded.
C30_ScriptLoadedOnce ==
  [][Len(checkout'.scripts) > Len(checkout.scripts) =>
       \A i \in DOMAIN checkout.scripts : checkout.scripts[i] = "failed"]_vars

====
